---------------------------- MODULE Spec2Model ----------------------------
(***************************************************************************)
(* A model of the render graph engine of wgpu-render-graph/src/lib.rs:     *)
(* the resource registry (RenderGraphResources), the graph builder         *)
(* (add_pass), the dependency analyser (build_dependency_edges), the       *)
(* scheduler (toposort, compute_store_ops, compute_dead_passes), the       *)
(* lifetime allocator (compute_resource_lifetimes,                         *)
(* compute_resource_aliasing) and the executor (execute, execute_serial).  *)
(* The variable render_graph holds a RenderGraph of the older engine,      *)
(* src/render_graph.rs, with its add_pass, remove_pass, validate and       *)
(* compile.                                                                *)
(*                                                                         *)
(* Conventions.  ResourceId values are the u32 values of the source (from  *)
(* 0).  NodeIndex values, pool indices and positions in sequences are      *)
(* 1-based here (the source counts from 0); execution indices (first_use,  *)
(* last_use, the index of compute_store_ops) are 0-based as in the source. *)
(* A HashMap is a function whose DOMAIN is the key set.  An Option is a    *)
(* record with a boolean field "some".                                     *)
(***************************************************************************)
EXTENDS Integers, Sequences, FiniteSets, TLC

(***************************************************************************)
(* Bounds of the model.                                                    *)
(***************************************************************************)
MaxResources == 3
MaxPasses == 2
MaxObjects == 1

(***************************************************************************)
(* Generic helpers.                                                        *)
(***************************************************************************)
Range(s) == {s[i] : i \in DOMAIN s}

Put(m, k, v) == [x \in (DOMAIN m) \cup {k} |-> IF x = k THEN v ELSE m[x]]

Retain(m, keep) == [x \in (DOMAIN m) \cap keep |-> m[x]]

EmptyMap == [x \in {} |-> 0]

Reverse(s) == [i \in 1..Len(s) |-> s[Len(s) + 1 - i]]

(***************************************************************************)
(* Descriptors.                                                            *)
(***************************************************************************)
DefaultColorDescriptor ==
    [format |-> "Rgba8UnormSrgb", width |-> 1, height |-> 1,
     usage |-> {"RENDER_ATTACHMENT", "TEXTURE_BINDING"},
     sample_count |-> 1, mip_level_count |-> 1,
     dimension |-> "D2", depth_or_array_layers |-> 1]

DefaultDepthDescriptor ==
    [format |-> "Depth32Float", width |-> 1, height |-> 1,
     usage |-> {"RENDER_ATTACHMENT", "TEXTURE_BINDING"},
     sample_count |-> 1, mip_level_count |-> 1,
     dimension |-> "D2", depth_or_array_layers |-> 1]

DefaultBufferDescriptor ==
    [size |-> 256, usage |-> {"STORAGE", "COPY_DST"}, mapped_at_creation |-> FALSE]

\* The variants of ResourceType.  Fields a variant does not carry hold the
\* builder's default, so that every descriptor is a record of one shape.
ExternalColor(clear, force_store) ==
    [variant |-> "ExternalColor", tex |-> DefaultColorDescriptor,
     buf |-> DefaultBufferDescriptor, clear |-> clear, force_store |-> force_store]

TransientColor(tex, clear) ==
    [variant |-> "TransientColor", tex |-> tex,
     buf |-> DefaultBufferDescriptor, clear |-> clear, force_store |-> TRUE]

ExternalDepth(clear, force_store) ==
    [variant |-> "ExternalDepth", tex |-> DefaultDepthDescriptor,
     buf |-> DefaultBufferDescriptor, clear |-> clear, force_store |-> force_store]

TransientDepth(tex, clear) ==
    [variant |-> "TransientDepth", tex |-> tex,
     buf |-> DefaultBufferDescriptor, clear |-> clear, force_store |-> TRUE]

ExternalBuffer ==
    [variant |-> "ExternalBuffer", tex |-> DefaultColorDescriptor,
     buf |-> DefaultBufferDescriptor, clear |-> FALSE, force_store |-> TRUE]

TransientBuffer(buf) ==
    [variant |-> "TransientBuffer", tex |-> DefaultColorDescriptor,
     buf |-> buf, clear |-> FALSE, force_store |-> TRUE]

\* ResourceTemplate::cube_map and ResourceTemplate::dimension_3d.
cube_map(template) ==
    [template EXCEPT !.dimension = "D2", !.depth_or_array_layers = 6]

dimension_3d(template, depth) ==
    [template EXCEPT !.dimension = "D3", !.depth_or_array_layers = depth]

IsTextureType(rt) ==
    rt.variant \in {"ExternalColor", "TransientColor", "ExternalDepth", "TransientDepth"}

ResourceDescriptor(name, resource_type, is_external) ==
    [name |-> name, resource_type |-> resource_type, is_external |-> is_external]

Store == "Store"
Discard == "Discard"

VARIABLES
    descriptors,        \* RenderGraphResources.descriptors : ResourceId -> ResourceDescriptor
    handles,            \* RenderGraphResources.handles     : ResourceId -> ResourceHandle
    versions,           \* RenderGraphResources.versions    : ResourceId -> u64
    next_id,            \* RenderGraphResources.next_id
    nodes,              \* the vertices of RenderGraph.graph, in NodeIndex order
    edges,              \* the edges of RenderGraph.graph, in EdgeIndex order
    pass_nodes,         \* RenderGraph.pass_nodes : name -> NodeIndex
    pass_resource_mappings, \* RenderGraph.pass_resource_mappings : name -> slot -> ResourceId
    sub_graphs,         \* RenderGraph.sub_graphs (the registered names)
    execution_order,    \* RenderGraph.execution_order
    store_ops,          \* RenderGraph.store_ops
    aliasing_info,      \* RenderGraph.aliasing_info : Option<ResourceAliasingInfo>
    needs_recompile,    \* RenderGraph.needs_recompile
    needs_resource_reallocation, \* RenderGraph.needs_resource_reallocation
    culled_passes,      \* RenderGraph.culled_passes
    resource_versions,  \* RenderGraph.resource_versions
    device,             \* the number of textures and buffers the Device has created
    result,             \* what the last call of the API returned: Ok or the error
    calls,              \* the PassNode methods called by the last execute, in order
    command_buffers,    \* the Vec<CommandBuffer> built by the last execute
    render_graph,       \* the RenderGraph of src/render_graph.rs, a record of its fields
    history             \* kept for the properties: the ids bound again since the last frame,
                        \* what the last frame ran on, and how far an add_pass, remove_pass,
                        \* compile round of render_graph has come

vars == <<descriptors, handles, versions, next_id, nodes, edges, pass_nodes,
          pass_resource_mappings, sub_graphs, execution_order, store_ops,
          aliasing_info, needs_recompile, needs_resource_reallocation,
          culled_passes, resource_versions, device, result, calls,
          command_buffers, render_graph, history>>

registryVars == <<descriptors, handles, versions, next_id>>
graphVars == <<nodes, edges, pass_nodes, pass_resource_mappings, sub_graphs>>
compiledVars == <<execution_order, store_ops, aliasing_info, needs_recompile,
                  needs_resource_reallocation, culled_passes>>
frameVars == <<resource_versions, device, calls, command_buffers>>

(***************************************************************************)
(* RenderGraphResources.                                                   *)
(***************************************************************************)
get_version_of(vs, id) == IF id \in DOMAIN vs THEN vs[id] ELSE 0

get_version(id) == get_version_of(versions, id)

increment_version(vs, id) == Put(vs, id, get_version_of(vs, id) + 1)

ExternalTextureHandle(view) ==
    [variant |-> "ExternalTexture", object |-> view, store_op |-> Store]

ExternalBufferHandle(buffer) ==
    [variant |-> "ExternalBuffer", object |-> buffer, store_op |-> "none"]

TransientTextureHandle(texture, store_op) ==
    [variant |-> "TransientTexture", object |-> texture, store_op |-> store_op]

TransientBufferHandle(buffer) ==
    [variant |-> "TransientBuffer", object |-> buffer, store_op |-> "none"]

\* What get_color_attachment and get_depth_attachment return for a resource
\* of one of the variants "expected": the error, or the view, the load-op
\* and the store-op of the handle (ResourceHandle::store_op).
AttachmentOf(id, expected) ==
    IF id \notin DOMAIN handles
    THEN [status |-> "ResourceNotBound", view |-> "none", load_op |-> "none", store_op |-> "none"]
    ELSE IF id \notin DOMAIN descriptors
    THEN [status |-> "DescriptorNotFound", view |-> "none", load_op |-> "none", store_op |-> "none"]
    ELSE IF descriptors[id].resource_type.variant \notin expected
    THEN [status |-> "TypeMismatch", view |-> "none", load_op |-> "none", store_op |-> "none"]
    ELSE IF handles[id].variant \notin {"ExternalTexture", "TransientTexture"}
    THEN [status |-> "Panic", view |-> "none", load_op |-> "none", store_op |-> "none"]
    ELSE [status |-> "Ok",
          view |-> handles[id].object,
          load_op |-> IF descriptors[id].resource_type.clear THEN "Clear" ELSE "Load",
          store_op |-> handles[id].store_op]

get_color_attachment(id) ==
    AttachmentOf(id, {"ExternalColor", "TransientColor"})

get_depth_attachment(id) ==
    AttachmentOf(id, {"ExternalDepth", "TransientDepth"})

\* ResourceHandle::view: the view of a texture handle; it panics on a buffer
\* handle.
ResourceHandle_view(handle) ==
    IF handle.variant \in {"ExternalTexture", "TransientTexture"}
    THEN [status |-> "Ok", value |-> handle.object]
    ELSE [status |-> "Panic", value |-> "none"]

\* The accessors of PassExecutionContext, past get_slot: what they return
\* for the ResourceId of the slot.  get_texture_view goes through
\* RenderGraphResources::get_texture_view, which maps view over the handle
\* (ResourceHandle_view here).
get_texture_view(id) ==
    IF id \notin DOMAIN handles THEN [status |-> "ResourceNotBound", value |-> "none"]
    ELSE ResourceHandle_view(handles[id])

get_buffer(id) ==
    IF id \notin DOMAIN handles THEN [status |-> "ResourceNotBound", value |-> "none"]
    ELSE IF handles[id].variant \in {"ExternalBuffer", "TransientBuffer"}
    THEN [status |-> "Ok", value |-> handles[id].object]
    ELSE [status |-> "TypeMismatch", value |-> "none"]

get_texture_size(id) ==
    IF id \notin DOMAIN descriptors THEN [status |-> "DescriptorNotFound", value |-> "none"]
    ELSE LET resource_type == descriptors[id].resource_type
         IN IF resource_type.variant \in {"TransientColor", "TransientDepth"}
            THEN [status |-> "Ok", value |-> <<resource_type.tex.width, resource_type.tex.height>>]
            ELSE IF resource_type.variant \in {"ExternalColor", "ExternalDepth"}
            THEN IF id \notin DOMAIN handles
                 THEN [status |-> "ResourceNotBound", value |-> "none"]
                 ELSE IF handles[id].variant = "TransientTexture"
                 THEN [status |-> "Ok", value |-> "size of the texture"]
                 ELSE [status |-> "TypeMismatch", value |-> "none"]
            ELSE [status |-> "TypeMismatch", value |-> "none"]

(***************************************************************************)
(* The petgraph DiGraph held by RenderGraph.graph.  An edge carries the    *)
(* ResourceId it was inferred from; "ord" orders the edges by the time of  *)
(* their insertion, which is the order of the adjacency list that          *)
(* Graph::neighbors walks (the newest edge first).                         *)
(***************************************************************************)
GraphNode(name, reads, writes, reads_writes) ==
    [name |-> name, reads |-> reads, writes |-> writes, reads_writes |-> reads_writes]

node_indices(ns) == 1..Len(ns)

contains_edge(es, a, b) == \E k \in DOMAIN es : es[k].from = a /\ es[k].to = b

MaxOrd(es) ==
    IF es = <<>> THEN 0
    ELSE CHOOSE m \in {es[k].ord : k \in DOMAIN es} :
            \A k \in DOMAIN es : es[k].ord <= m

add_edge(es, from, to, resource) ==
    Append(es, [from |-> from, to |-> to, resource |-> resource, ord |-> MaxOrd(es) + 1])

\* Graph::remove_edge: nothing for an index that is out of range, else the
\* last edge takes the place of the removed one (Vec::swap_remove).
remove_edge(es, e) ==
    IF e > Len(es) THEN es
    ELSE [k \in 1..(Len(es) - 1) |-> IF k = e THEN es[Len(es)] ELSE es[k]]

RECURSIVE RemoveEdgesFrom(_, _, _)
RemoveEdgesFrom(es, e, last) ==
    IF e > last THEN es ELSE RemoveEdgesFrom(remove_edge(es, e), e + 1, last)

\* recompile_if_needed, lines 1609-1612: the edge indices are collected
\* first and then removed one by one.
remove_all_edges(es) == RemoveEdgesFrom(es, 1, Len(es))

RECURSIVE NeighborsOf(_, _)
NeighborsOf(es, outgoing) ==
    IF outgoing = {} THEN <<>>
    ELSE LET k == CHOOSE x \in outgoing : \A y \in outgoing : es[y].ord <= es[x].ord
         IN <<es[k].to>> \o NeighborsOf(es, outgoing \ {k})

neighbors(es, n) == NeighborsOf(es, {k \in DOMAIN es : es[k].from = n})

(***************************************************************************)
(* RenderGraph::build_dependency_edges.                                    *)
(***************************************************************************)
\* A variant with the edge turned round, from the reader to the writer: the
\* order C1 describes does not survive it.
EdgesToAddReversed(resources, resource_writers, node_index, es) ==
    LET found == SelectSeq(resources,
                    LAMBDA r : r \in DOMAIN resource_writers
                               /\ ~contains_edge(es, resource_writers[r], node_index))
    IN [k \in 1..Len(found) |->
            [from |-> node_index, to |-> resource_writers[found[k]], resource |-> found[k]]]

EdgesToAdd(resources, resource_writers, node_index, es) ==
    LET found == SelectSeq(resources,
                    LAMBDA r : r \in DOMAIN resource_writers
                               /\ ~contains_edge(es, resource_writers[r], node_index))
    IN [k \in 1..Len(found) |->
            [from |-> resource_writers[found[k]], to |-> node_index, resource |-> found[k]]]

RecordWriters(resource_writers, written, node_index) ==
    [r \in (DOMAIN resource_writers) \cup written |->
        IF r \in written THEN node_index ELSE resource_writers[r]]

\* ScanNodesWritersFirst is a variant that records a pass as the writer of
\* its resources before it looks up the writers of what the pass reads: a
\* read-write pass then depends on itself.
RECURSIVE ScanNodesWritersFirst(_, _, _, _, _)
ScanNodesWritersFirst(ns, es, node_index, resource_writers, edges_to_add) ==
    IF node_index > Len(ns) THEN edges_to_add
    ELSE LET node == ns[node_index]
             writers == RecordWriters(resource_writers,
                            Range(node.writes) \cup Range(node.reads_writes), node_index)
             fromReads == EdgesToAdd(node.reads, writers, node_index, es)
             fromReadsWrites == EdgesToAdd(node.reads_writes, writers, node_index, es)
         IN ScanNodesWritersFirst(ns, es, node_index + 1, writers,
                                  edges_to_add \o fromReads \o fromReadsWrites)

RECURSIVE ScanNodes(_, _, _, _, _)
ScanNodes(ns, es, node_index, resource_writers, edges_to_add) ==
    IF node_index > Len(ns) THEN edges_to_add
    ELSE LET node == ns[node_index]
             fromReads == EdgesToAdd(node.reads, resource_writers, node_index, es)
             fromReadsWrites == EdgesToAdd(node.reads_writes, resource_writers, node_index, es)
             writers == RecordWriters(resource_writers,
                            Range(node.writes) \cup Range(node.reads_writes), node_index)
         IN ScanNodes(ns, es, node_index + 1, writers,
                      edges_to_add \o fromReads \o fromReadsWrites)

RECURSIVE AddEdges(_, _)
AddEdges(es, edges_to_add) ==
    IF edges_to_add = <<>> THEN es
    ELSE AddEdges(add_edge(es, edges_to_add[1].from, edges_to_add[1].to,
                           edges_to_add[1].resource),
                  Tail(edges_to_add))

build_dependency_edges(ns, es) ==
    AddEdges(es, ScanNodes(ns, es, 1, EmptyMap, <<>>))

(***************************************************************************)
(* petgraph::algo::toposort as compile calls it: a depth-first search from *)
(* every node, the nodes taken in reverse index order, that records the    *)
(* nodes as they finish; the reversed finishing order is the result, and   *)
(* it is rejected when an edge runs against it.                            *)
(***************************************************************************)
PushUndiscovered(stack, succs, discovered) ==
    stack \o SelectSeq(succs, LAMBDA s : s \notin discovered)

RECURSIVE DfsRun(_, _)
DfsRun(es, st) ==
    IF st.stack = <<>> THEN st
    ELSE LET nx == st.stack[Len(st.stack)]
         IN IF nx \notin st.discovered
            THEN LET disc == st.discovered \cup {nx}
                 IN DfsRun(es, [st EXCEPT !.discovered = disc,
                                          !.stack = PushUndiscovered(st.stack, neighbors(es, nx), disc),
                                          !.self_loop = st.self_loop \/ nx \in Range(neighbors(es, nx))])
            ELSE DfsRun(es, [st EXCEPT !.stack = SubSeq(st.stack, 1, Len(st.stack) - 1),
                                       !.finished = st.finished \cup {nx},
                                       !.finish_stack = IF nx \in st.finished THEN st.finish_stack
                                                        ELSE Append(st.finish_stack, nx)])

RECURSIVE DfsRoots(_, _, _)
DfsRoots(es, i, st) ==
    IF i = 0 THEN st
    ELSE IF i \in st.discovered THEN DfsRoots(es, i - 1, st)
    ELSE DfsRoots(es, i - 1, DfsRun(es, [st EXCEPT !.stack = <<i>>]))

FinishOrder(ns, es) ==
    LET st == DfsRoots(es, Len(ns),
                [stack |-> <<>>, discovered |-> {}, finished |-> {},
                 finish_stack |-> <<>>, self_loop |-> FALSE])
    IN [order |-> Reverse(st.finish_stack), self_loop |-> st.self_loop]

IndexIn(order, n) == CHOOSE i \in DOMAIN order : order[i] = n

toposort(ns, es) ==
    LET f == FinishOrder(ns, es)
        against == \E k \in DOMAIN es :
                      IndexIn(f.order, es[k].from) > IndexIn(f.order, es[k].to)
    IN IF f.self_loop \/ against
       THEN [ok |-> FALSE, order |-> <<>>]
       ELSE [ok |-> TRUE, order |-> f.order]

(***************************************************************************)
(* RenderGraph::compute_resource_lifetimes.  pass_index counts from 0.     *)
(***************************************************************************)
ResourceLifetime(resource_id, first_use, last_use) ==
    [resource_id |-> resource_id, first_use |-> first_use, last_use |-> last_use]

\* TouchWriteIgnored is a variant in which a write gives a resource no
\* lifetime: a resource that is only written gets no pool slot and no handle.
TouchWriteIgnored(lifetimes, resource_id, pass_index) == lifetimes

\* lifetimes.entry(id).or_insert(..) for a write: an existing entry is kept.
TouchWrite(lifetimes, resource_id, pass_index) ==
    IF resource_id \in DOMAIN lifetimes THEN lifetimes
    ELSE Put(lifetimes, resource_id, ResourceLifetime(resource_id, pass_index, pass_index))

\* the same for a read or a read-write, followed by last_use = pass_index.
TouchRead(lifetimes, resource_id, pass_index) ==
    IF resource_id \in DOMAIN lifetimes
    THEN [lifetimes EXCEPT ![resource_id].last_use = pass_index]
    ELSE Put(lifetimes, resource_id, ResourceLifetime(resource_id, pass_index, pass_index))

RECURSIVE TouchAll(_, _, _, _)
TouchAll(lifetimes, resources, pass_index, isWrite) ==
    IF resources = <<>> THEN lifetimes
    ELSE TouchAll(IF isWrite THEN TouchWrite(lifetimes, resources[1], pass_index)
                  ELSE TouchRead(lifetimes, resources[1], pass_index),
                  Tail(resources), pass_index, isWrite)

RECURSIVE LifetimeScan(_, _, _, _)
LifetimeScan(ns, order, position, lifetimes) ==
    IF position > Len(order) THEN lifetimes
    ELSE LET node == ns[order[position]]
             pass_index == position - 1
             afterWrites == TouchAll(lifetimes, node.writes, pass_index, TRUE)
             afterReads == TouchAll(afterWrites, node.reads, pass_index, FALSE)
             afterReadsWrites == TouchAll(afterReads, node.reads_writes, pass_index, FALSE)
         IN LifetimeScan(ns, order, position + 1, afterReadsWrites)

\* compute_resource_lifetimes_of_registry is a variant that gives every
\* registered transient resource a lifetime, used or not: the empty frame of
\* C26 does not survive it.
compute_resource_lifetimes_of_registry(ns, descs, order) ==
    {ResourceLifetime(id, 0, 0) : id \in {x \in DOMAIN descs : ~descs[x].is_external}}

\* The Vec the function returns comes out of a HashMap, so it is a set here.
compute_resource_lifetimes(ns, descs, order) ==
    LET lifetimes == LifetimeScan(ns, order, 1, EmptyMap)
    IN {lifetimes[id] : id \in {x \in DOMAIN lifetimes :
                                    x \in DOMAIN descs /\ ~descs[x].is_external}}

(***************************************************************************)
(* RenderGraph::can_alias_textures, can_alias_buffers and                  *)
(* compute_resource_aliasing.                                              *)
(***************************************************************************)
\* can_alias_textures_of_any_size is a variant that does not compare width
\* and height: the slot descriptors of C34 do not survive it.
can_alias_textures_of_any_size(desc1, desc2) ==
    /\ desc1.format = desc2.format
    /\ desc1.sample_count = desc2.sample_count
    /\ desc1.mip_level_count = desc2.mip_level_count
    /\ desc2.usage \subseteq desc1.usage

can_alias_textures(desc1, desc2) ==
    /\ desc1.format = desc2.format
    /\ desc1.width = desc2.width
    /\ desc1.height = desc2.height
    /\ desc1.sample_count = desc2.sample_count
    /\ desc1.mip_level_count = desc2.mip_level_count
    /\ desc2.usage \subseteq desc1.usage

can_alias_buffers(desc1, desc2) ==
    desc1.size >= desc2.size /\ desc1.usage = desc2.usage

NoResource == [some |-> FALSE, object |-> 0]

SomeResource(object) == [some |-> TRUE, object |-> object]

PoolDescriptorInfo(resource_type) ==
    [variant |-> IF resource_type.variant = "TransientBuffer" THEN "Buffer" ELSE "Texture",
     tex |-> resource_type.tex, buf |-> resource_type.buf]

PoolSlot(resource, descriptor_info, lifetime_end) ==
    [resource |-> resource, descriptor_info |-> descriptor_info, lifetime_end |-> lifetime_end]

NoAliasingInfo == [some |-> FALSE, aliases |-> EmptyMap, pools |-> <<>>]

\* lines 1352-1371
can_reuse(descriptor_info, resource_type) ==
    IF descriptor_info.variant = "Texture"
          /\ resource_type.variant \in {"TransientColor", "TransientDepth"}
    THEN can_alias_textures(descriptor_info.tex, resource_type.tex)
    ELSE IF descriptor_info.variant = "Buffer" /\ resource_type.variant = "TransientBuffer"
    THEN can_alias_buffers(descriptor_info.buf, resource_type.buf)
    ELSE FALSE

\* lines 1374-1408: the widened descriptor of the candidate and whether the
\* slot needs a new physical resource.
Widen(descriptor_info, resource_type) ==
    IF descriptor_info.variant = "Texture"
          /\ resource_type.variant \in {"TransientColor", "TransientDepth"}
    THEN IF ~(resource_type.tex.usage \subseteq descriptor_info.tex.usage)
         THEN [info |-> [descriptor_info EXCEPT
                            !.tex.usage = descriptor_info.tex.usage \cup resource_type.tex.usage],
               needs_new_resource |-> TRUE]
         ELSE [info |-> descriptor_info, needs_new_resource |-> FALSE]
    ELSE IF descriptor_info.variant = "Buffer" /\ resource_type.variant = "TransientBuffer"
    THEN IF resource_type.buf.size > descriptor_info.buf.size
         THEN [info |-> [descriptor_info EXCEPT !.buf = resource_type.buf],
               needs_new_resource |-> TRUE]
         ELSE [info |-> descriptor_info, needs_new_resource |-> FALSE]
    ELSE [info |-> descriptor_info, needs_new_resource |-> FALSE]

\* lines 1410-1419
ReuseSlot(info, pool_index, lifetime, resource_type) ==
    LET w == Widen(info.pools[pool_index].descriptor_info, resource_type)
        slot == info.pools[pool_index]
    IN [info EXCEPT
          !.pools[pool_index] =
              PoolSlot(IF w.needs_new_resource THEN NoResource ELSE slot.resource,
                       w.info, lifetime.last_use),
          !.aliases = Put(info.aliases, lifetime.resource_id, pool_index)]

\* lines 1428-1459
NewSlot(info, lifetime, resource_type) ==
    [info EXCEPT
       !.pools = Append(info.pools,
                    PoolSlot(NoResource, PoolDescriptorInfo(resource_type), lifetime.last_use)),
       !.aliases = Put(info.aliases, lifetime.resource_id, Len(info.pools) + 1)]

\* The slots popped from the heap for a lifetime (lines 1341-1347).  Every
\* slot is in the heap between two lifetimes: it is pushed when it is made
\* and every popped candidate is pushed back.  ReusedCandidatesInclusive is
\* a variant that also pops a slot whose lifetime ends at the very index the
\* next one starts: the disjointness of C2 does not survive it.
ReusedCandidatesInclusive(info, lifetime) ==
    {p \in DOMAIN info.pools : info.pools[p].lifetime_end <= lifetime.first_use}

ReusedCandidates(info, lifetime) ==
    {p \in DOMAIN info.pools : info.pools[p].lifetime_end < lifetime.first_use}

\* AssignLifetimeFresh is a variant that never reuses a slot: the slot count
\* of C12 does not survive it.
AssignLifetimeFresh(info, lifetime, descs) ==
    {NewSlot(info, lifetime, descs[lifetime.resource_id].resource_type)}

\* One lifetime.  The candidates come off the BinaryHeap by lifetime_end,
\* equal keys in an order the heap decides, and the first one that can be
\* reused is taken: any reusable candidate of least lifetime_end.
AssignLifetime(info, lifetime, descs) ==
    LET resource_type == descs[lifetime.resource_id].resource_type
        reusable == {p \in ReusedCandidates(info, lifetime) :
                        can_reuse(info.pools[p].descriptor_info, resource_type)}
        firsts == {p \in reusable : \A q \in reusable :
                        info.pools[p].lifetime_end <= info.pools[q].lifetime_end}
    IN IF reusable # {}
       THEN {ReuseSlot(info, p, lifetime, resource_type) : p \in firsts}
       ELSE {NewSlot(info, lifetime, resource_type)}

\* sort_by_key(first_use) is stable and the Vec comes from a HashMap, so
\* lifetimes of equal first_use are taken in any order.
RECURSIVE AliasingPlans(_, _, _)
AliasingPlans(remaining, info, descs) ==
    IF remaining = {} THEN {info}
    ELSE LET next == {lt \in remaining : \A o \in remaining : lt.first_use <= o.first_use}
         IN UNION { UNION { AliasingPlans(remaining \ {lt}, info2, descs) :
                                info2 \in AssignLifetime(info, lt, descs) } : lt \in next }

compute_resource_aliasing(lifetimes, descs) ==
    AliasingPlans(lifetimes, [some |-> TRUE, aliases |-> EmptyMap, pools |-> <<>>], descs)

(***************************************************************************)
(* RenderGraph::compute_store_ops.  index counts from 0.                   *)
(***************************************************************************)
RECURSIVE InsertIfAbsent(_, _, _)
InsertIfAbsent(m, keys, v) ==
    IF keys = <<>> THEN m
    ELSE InsertIfAbsent(IF keys[1] \in DOMAIN m THEN m ELSE Put(m, keys[1], v), Tail(keys), v)

\* lines 1472-1478: the passes are walked from the last to the first.
RECURSIVE LastReadScan(_, _, _, _)
LastReadScan(ns, order, position, last_read) ==
    IF position = 0 THEN last_read
    ELSE LET node == ns[order[position]]
         IN LastReadScan(ns, order, position - 1,
                InsertIfAbsent(last_read, node.reads \o node.reads_writes, position - 1))

ReadLater(last_read, resource_id, index) ==
    resource_id \in DOMAIN last_read /\ last_read[resource_id] > index

\* lines 1486-1518: the store-op of one write at execution index "index".
WriteStoreOp(descs, last_read, resource_id, index) ==
    LET descriptor == descs[resource_id]
    IN IF descriptor.is_external
       THEN IF descriptor.resource_type.variant \in {"ExternalColor", "ExternalDepth"}
            THEN IF descriptor.resource_type.force_store THEN Store
                 ELSE IF ReadLater(last_read, resource_id, index) THEN Store
                 ELSE Discard
            ELSE Store
       ELSE IF ReadLater(last_read, resource_id, index) THEN Store ELSE Discard

\* lines 1522-1541: the entry of a resource that no pass writes.
UnwrittenStoreOp(descs, resource_id) ==
    LET descriptor == descs[resource_id]
    IN IF descriptor.is_external
       THEN IF descriptor.resource_type.variant \in {"ExternalColor", "ExternalDepth"}
            THEN IF descriptor.resource_type.force_store THEN Store ELSE Discard
            ELSE Store
       ELSE Discard

RECURSIVE InsertWrites(_, _, _, _, _)
InsertWrites(ops, descs, last_read, written, index) ==
    IF written = <<>> THEN ops
    ELSE InsertWrites(Put(ops, written[1], WriteStoreOp(descs, last_read, written[1], index)),
                      descs, last_read, Tail(written), index)

RECURSIVE StoreOpScan(_, _, _, _, _, _)
StoreOpScan(ns, descs, order, last_read, position, ops) ==
    IF position > Len(order) THEN ops
    ELSE LET node == ns[order[position]]
         IN StoreOpScan(ns, descs, order, last_read, position + 1,
                InsertWrites(ops, descs, last_read, node.writes \o node.reads_writes,
                             position - 1))

compute_store_ops(ns, descs, order) ==
    LET last_read == LastReadScan(ns, order, Len(order), EmptyMap)
        written == StoreOpScan(ns, descs, order, last_read, 1, EmptyMap)
    IN [id \in (DOMAIN written) \cup (DOMAIN descs) |->
            IF id \in DOMAIN written THEN written[id] ELSE UnwrittenStoreOp(descs, id)]

(***************************************************************************)
(* RenderGraph::compute_dead_passes.                                       *)
(***************************************************************************)
\* RequiredScanOfWrites is a variant in which only a pass kept for what it
\* writes makes the resources it reads required: the producer of a pass
\* without writes is culled by it.
RECURSIVE RequiredScanOfWrites(_, _, _, _, _)
RequiredScanOfWrites(ns, order, position, required_resources, required_passes) ==
    IF position = 0 THEN required_passes
    ELSE LET node_index == order[position]
             node == ns[node_index]
             has_side_effects == node.writes = <<>> /\ node.reads_writes = <<>>
             writes_required_resource ==
                 \/ \E r \in Range(node.writes) : r \in required_resources
                 \/ \E r \in Range(node.reads_writes) : r \in required_resources
         IN IF writes_required_resource
            THEN RequiredScanOfWrites(ns, order, position - 1,
                    required_resources \cup Range(node.reads) \cup Range(node.reads_writes),
                    required_passes \cup {node_index})
            ELSE RequiredScanOfWrites(ns, order, position - 1, required_resources,
                    IF has_side_effects THEN required_passes \cup {node_index}
                    ELSE required_passes)

RECURSIVE RequiredScan(_, _, _, _, _)
RequiredScan(ns, order, position, required_resources, required_passes) ==
    IF position = 0 THEN required_passes
    ELSE LET node_index == order[position]
             node == ns[node_index]
             has_side_effects == node.writes = <<>> /\ node.reads_writes = <<>>
             writes_required_resource ==
                 \/ \E r \in Range(node.writes) : r \in required_resources
                 \/ \E r \in Range(node.reads_writes) : r \in required_resources
         IN IF writes_required_resource \/ has_side_effects
            THEN RequiredScan(ns, order, position - 1,
                    required_resources \cup Range(node.reads) \cup Range(node.reads_writes),
                    required_passes \cup {node_index})
            ELSE RequiredScan(ns, order, position - 1, required_resources, required_passes)

\* compute_dead_passes_external_only is a variant in which a required pass
\* does not make the resources it reads required: a pass whose output only
\* a kept pass reads is culled by it.
compute_dead_passes_external_only(ns, descs, order) ==
    LET externals == {id \in DOMAIN descs : descs[id].is_external}
    IN {node_index \in Range(order) :
           LET written == Range(ns[node_index].writes) \cup Range(ns[node_index].reads_writes)
           IN written # {} /\ written \cap externals = {}}

compute_dead_passes(ns, descs, order) ==
    LET externals == {id \in DOMAIN descs : descs[id].is_external}
    IN Range(order) \ RequiredScan(ns, order, Len(order), externals, {})

(***************************************************************************)
(* RenderGraph::compile and RenderGraph::recompile_if_needed, as the set   *)
(* of values the compiled fields of the graph may take.                    *)
(***************************************************************************)
CompiledState ==
    [ok |-> TRUE, edges |-> edges, execution_order |-> execution_order,
     store_ops |-> store_ops, aliasing_info |-> aliasing_info,
     culled_passes |-> culled_passes, needs_recompile |-> needs_recompile,
     needs_resource_reallocation |-> needs_resource_reallocation]

\* lines 1581-1594 and 1614-1627, from the edges the graph holds at that point.
CompileFrom(es0) ==
    LET es == build_dependency_edges(nodes, es0)
        sorted == toposort(nodes, es)
    IN IF ~sorted.ok
       THEN {[CompiledState EXCEPT !.ok = FALSE, !.edges = es]}
       ELSE {[CompiledState EXCEPT
                !.edges = es,
                !.execution_order = sorted.order,
                !.store_ops = compute_store_ops(nodes, descriptors, sorted.order),
                !.aliasing_info = plan,
                !.culled_passes = compute_dead_passes(nodes, descriptors, sorted.order),
                !.needs_recompile = FALSE] :
             plan \in compute_resource_aliasing(
                        compute_resource_lifetimes(nodes, descriptors, sorted.order),
                        descriptors)}

\* recompile_if_needed_forgetful is a variant that drops the store-ops when
\* nothing is pending: the repeated frame of C17 does not survive it.
recompile_if_needed_forgetful ==
    IF needs_resource_reallocation
    THEN {[CompiledState EXCEPT !.aliasing_info = plan,
                                !.needs_resource_reallocation = FALSE] :
          plan \in compute_resource_aliasing(
                     compute_resource_lifetimes(nodes, descriptors, execution_order),
                     descriptors)}
    ELSE IF ~needs_recompile THEN {[CompiledState EXCEPT !.store_ops = EmptyMap]}
    ELSE CompileFrom(remove_all_edges(edges))

recompile_if_needed ==
    IF needs_resource_reallocation
    THEN {[CompiledState EXCEPT !.aliasing_info = plan,
                                !.needs_resource_reallocation = FALSE] :
          plan \in compute_resource_aliasing(
                     compute_resource_lifetimes(nodes, descriptors, execution_order),
                     descriptors)}
    ELSE IF ~needs_recompile THEN {CompiledState}
    ELSE CompileFrom(remove_all_edges(edges))

(***************************************************************************)
(* RenderGraphResources::allocate_transient_resources_with_aliasing.       *)
(* The Device hands out a new object for every create_texture and          *)
(* create_buffer; "dev" counts them and names the objects.                 *)
(***************************************************************************)
RECURSIVE MaterializePools(_, _, _)
MaterializePools(pools, pool_index, dev) ==
    IF pool_index > Len(pools) THEN [pools |-> pools, device |-> dev]
    ELSE IF pools[pool_index].resource.some
    THEN MaterializePools(pools, pool_index + 1, dev)
    ELSE MaterializePools([pools EXCEPT ![pool_index].resource = SomeResource(dev + 1)],
                          pool_index + 1, dev + 1)

StoreOpOrDefault(ops, resource_id) ==
    IF resource_id \in DOMAIN ops THEN ops[resource_id] ELSE Store

allocate_transient_resources_with_aliasing(descs, hs, vs, ops, info, dev) ==
    LET made == MaterializePools(info.pools, 1, dev)
        allocated_resources ==
            {id \in DOMAIN descs :
                /\ ~descs[id].is_external
                /\ id \notin DOMAIN hs
                /\ id \in DOMAIN info.aliases
                /\ info.aliases[id] \in DOMAIN made.pools}
        HandleOf(id) ==
            LET pool_slot == made.pools[info.aliases[id]]
            IN IF pool_slot.descriptor_info.variant = "Texture"
               THEN TransientTextureHandle(pool_slot.resource.object, StoreOpOrDefault(ops, id))
               ELSE TransientBufferHandle(pool_slot.resource.object)
    IN [handles |-> [id \in (DOMAIN hs) \cup allocated_resources |->
                        IF id \in allocated_resources THEN HandleOf(id) ELSE hs[id]],
        versions |-> [id \in (DOMAIN vs) \cup allocated_resources |->
                        IF id \in allocated_resources THEN get_version_of(vs, id) + 1
                        ELSE vs[id]],
        aliasing_info |-> [info EXCEPT !.pools = made.pools],
        device |-> made.device]

(***************************************************************************)
(* RenderGraph::invalidate_bind_groups_for_changed_resources.              *)
(***************************************************************************)
NodeResources(node) ==
    Range(node.reads) \cup Range(node.writes) \cup Range(node.reads_writes)

\* invalidate_bind_groups_for_readers is a variant that marks a pass only for
\* the resources it reads or read-writes: a pass that only writes a
\* resource allocated in the frame does not hear of it.
invalidate_bind_groups_for_readers(descs, vs, seen, ns, order) ==
    LET dirty_resources ==
            {id \in DOMAIN descs : get_version_of(vs, id) # get_version_of(seen, id)}
        passes_to_invalidate ==
            {n \in Range(order) :
                (Range(ns[n].reads) \cup Range(ns[n].reads_writes)) \cap dirty_resources # {}}
    IN [resource_versions |-> [id \in (DOMAIN seen) \cup dirty_resources |->
                                  IF id \in dirty_resources THEN get_version_of(vs, id)
                                  ELSE seen[id]],
        passes_to_invalidate |-> passes_to_invalidate]

invalidate_bind_groups_for_changed_resources(descs, vs, seen, ns, order) ==
    LET dirty_resources ==
            {id \in DOMAIN descs : get_version_of(vs, id) # get_version_of(seen, id)}
        passes_to_invalidate ==
            {n \in Range(order) : NodeResources(ns[n]) \cap dirty_resources # {}}
    IN [resource_versions |-> [id \in (DOMAIN seen) \cup dirty_resources |->
                                  IF id \in dirty_resources THEN get_version_of(vs, id)
                                  ELSE seen[id]],
        passes_to_invalidate |-> passes_to_invalidate]

(***************************************************************************)
(* What a frame leaves behind for the caller and for the passes: the       *)
(* PassNode methods called (calls) and the command buffers returned.       *)
(***************************************************************************)
Call(method, pass) == [method |-> method, pass |-> pass]

EncoderBuffer(recorded) ==
    [source |-> "encoder", passes |-> recorded, sub_graph |-> "none",
     requested_by |-> 0, request |-> 0, part |-> 0]

SubGraphBuffers(name, node_index, request, count) ==
    [j \in 1..count |->
        [source |-> "sub_graph", passes |-> <<>>, sub_graph |-> name,
         requested_by |-> node_index, request |-> request, part |-> j]]

RECURSIVE AscendingSeq(_)
AscendingSeq(S) ==
    IF S = {} THEN <<>>
    ELSE LET least == CHOOSE x \in S : \A y \in S : x <= y
         IN <<least>> \o AscendingSeq(S \ {least})

\* The invalidate_bind_groups calls of lines 1709-1712.  They go over a
\* HashSet; a pass sees only its own call, so they are listed by NodeIndex.
InvalidateCalls(passes_to_invalidate) ==
    LET listed == AscendingSeq(passes_to_invalidate)
    IN [k \in 1..Len(listed) |-> Call("invalidate_bind_groups", listed[k])]

\* RenderGraph::execute, lines 1653-1665.  PrepareCallsOfCulled is a variant
\* with the culled test inverted: the frame protocol of C8 does not survive it.
PrepareCallsOfCulled(ns, order, culled, disabled) ==
    LET live == SelectSeq(order, LAMBDA n : n \in culled /\ ns[n].name \notin disabled)
    IN [k \in 1..Len(live) |-> Call("prepare", live[k])]

PrepareCalls(ns, order, culled, disabled) ==
    LET live == SelectSeq(order, LAMBDA n : n \notin culled /\ ns[n].name \notin disabled)
    IN [k \in 1..Len(live) |-> Call("prepare", live[k])]

(***************************************************************************)
(* RenderGraph::execute_serial.  A pass's execute is given by the caller's *)
(* passes: "failing" holds the names of the passes whose execute returns   *)
(* Err, "commands" the SubGraphRunCommand list a pass returns.  A          *)
(* sub-graph is a RenderGraph of its own; of its execute only the result   *)
(* is kept: an error or a number of command buffers, never zero, because   *)
(* execute_serial ends with command_buffers.push(encoder.finish()).        *)
(***************************************************************************)
SubGraphRunCommand(sub_graph_name, inputs) ==
    [sub_graph_name |-> sub_graph_name, inputs |-> inputs]

\* lines 1774-1851
InputTypeMismatch(sub_graph, command) ==
    \E index \in DOMAIN command.inputs :
        /\ index \in DOMAIN sub_graph.input_slots
        /\ sub_graph.input_slots[index] \in DOMAIN sub_graph.externals
        /\ LET variant == sub_graph.externals[sub_graph.input_slots[index]]
           IN \/ command.inputs[index] = "TextureView"
                 /\ variant \notin {"ExternalColor", "ExternalDepth"}
              \/ command.inputs[index] = "Buffer" /\ variant # "ExternalBuffer"

\* line 1759: command_buffers.push(encoder.finish()).  FlushEncoderDropped is
\* a variant that loses the encoder instead: the placement of C9 does not
\* survive it.
FlushEncoderDropped(st) == st.command_buffers

FlushEncoder(st) == Append(st.command_buffers, EncoderBuffer(st.encoder))

\* lines 1758-1859
RECURSIVE RunSubGraphs(_, _, _, _, _, _)
RunSubGraphs(sgs, sub_results, node_index, sub_graph_commands, request, st) ==
    IF request > Len(sub_graph_commands) \/ st.status # "Ok" THEN st
    ELSE LET command == sub_graph_commands[request]
             pushed == FlushEncoder(st)
         IN IF command.sub_graph_name \notin DOMAIN sgs
            THEN [st EXCEPT !.status = "SubGraphNotFound", !.command_buffers = pushed]
            ELSE IF InputTypeMismatch(sgs[command.sub_graph_name], command)
            THEN [st EXCEPT !.status = "SubGraphInputTypeMismatch", !.command_buffers = pushed]
            ELSE IF ~sub_results[command.sub_graph_name].ok
            THEN [st EXCEPT !.status = "SubGraphError", !.command_buffers = pushed]
            ELSE RunSubGraphs(sgs, sub_results, node_index, sub_graph_commands, request + 1,
                    [st EXCEPT
                       !.command_buffers =
                           pushed \o SubGraphBuffers(command.sub_graph_name, node_index, request,
                                        sub_results[command.sub_graph_name].buffers),
                       !.encoder = <<>>])

CommandsOf(commands, name) == IF name \in DOMAIN commands THEN commands[name] ELSE <<>>

RECURSIVE SerialScan(_, _, _, _, _, _, _, _, _, _, _)
SerialScan(ns, order, culled, mappings, sgs, disabled, failing, commands, sub_results, position, st) ==
    IF position > Len(order) \/ st.status # "Ok" THEN st
    ELSE LET node_index == order[position]
             node == ns[node_index]
             Continue(st2) ==
                 SerialScan(ns, order, culled, mappings, sgs, disabled, failing, commands,
                            sub_results, position + 1, st2)
         IN IF node_index \in culled THEN Continue(st)
            ELSE IF node.name \in disabled THEN Continue(st)
            ELSE IF node.name \notin DOMAIN mappings
            THEN [st EXCEPT !.status = "ResourceNotFound"]
            ELSE LET called == [st EXCEPT !.calls = Append(st.calls, Call("execute", node_index))]
                 IN IF node.name \in failing
                    THEN [called EXCEPT !.status = "PassError"]
                    ELSE Continue(RunSubGraphs(sgs, sub_results, node_index,
                                     CommandsOf(commands, node.name), 1,
                                     [called EXCEPT !.encoder = Append(called.encoder, node_index)]))

\* execute_serial_keeping_buffers is a variant that hands the caller the
\* command buffers finished before the error: the abort of C21 does not
\* survive it.
execute_serial_keeping_buffers(ns, order, culled, mappings, sgs, disabled, failing, commands, sub_results) ==
    SerialScan(ns, order, culled, mappings, sgs, disabled, failing, commands, sub_results, 1,
               [status |-> "Ok", encoder |-> <<>>, command_buffers |-> <<>>, calls |-> <<>>])

execute_serial(ns, order, culled, mappings, sgs, disabled, failing, commands, sub_results) ==
    LET st == SerialScan(ns, order, culled, mappings, sgs, disabled, failing, commands,
                         sub_results, 1,
                         [status |-> "Ok", encoder |-> <<>>, command_buffers |-> <<>>,
                          calls |-> <<>>])
    IN IF st.status = "Ok"
       THEN [st EXCEPT !.command_buffers = Append(st.command_buffers, EncoderBuffer(st.encoder))]
       ELSE [st EXCEPT !.command_buffers = <<>>]

(***************************************************************************)
(* The RenderGraph of src/render_graph.rs, the engine that has             *)
(* remove_pass and validate.  It is the record render_graph, with the      *)
(* descriptors and next_id of its RenderGraphResources; the fields its     *)
(* add_pass, remove_pass and compile do not touch (handles, versions,      *)
(* statistics, the two enabled flags) are left out.  A name that both      *)
(* files define carries the prefix rg_ here.  build_dependency_edges,      *)
(* compute_resource_lifetimes and the making of a new pool slot are, line  *)
(* for line, the ones of lib.rs, and toposort is the same petgraph call.   *)
(***************************************************************************)
rg_new ==
    [descriptors |-> EmptyMap, next_id |-> 0, nodes |-> <<>>, edges |-> <<>>,
     pass_nodes |-> EmptyMap, passes |-> {}, execution_order |-> <<>>,
     store_ops |-> EmptyMap, aliasing_info |-> NoAliasingInfo, needs_recompile |-> TRUE]

\* Graph::remove_node starts by removing the edges of the node, the head of
\* its outgoing list first (the newest edge), then the head of its incoming
\* list.
RECURSIVE RemoveIncident(_, _)
RemoveIncident(es, a) ==
    LET outgoing == {k \in DOMAIN es : es[k].from = a}
        incoming == {k \in DOMAIN es : es[k].to = a}
        Newest(S) == CHOOSE k \in S : \A j \in S : es[j].ord <= es[k].ord
    IN IF outgoing # {} THEN RemoveIncident(remove_edge(es, Newest(outgoing)), a)
       ELSE IF incoming # {} THEN RemoveIncident(remove_edge(es, Newest(incoming)), a)
       ELSE es

\* Graph::remove_node: nothing for an index that is out of range; else the
\* last node takes the index of the removed one (Vec::swap_remove) and its
\* edges are pointed at its new index.
remove_node(ns, es, a) ==
    IF a \notin DOMAIN ns THEN [nodes |-> ns, edges |-> es]
    ELSE LET last == Len(ns)
             kept == RemoveIncident(es, a)
             Moved(n) == IF n = last THEN a ELSE n
         IN [nodes |-> [k \in 1..(last - 1) |-> IF k = a THEN ns[last] ELSE ns[k]],
             edges |-> [k \in DOMAIN kept |->
                           [kept[k] EXCEPT !.from = Moved(@), !.to = Moved(@)]]]

\* petgraph::algo::has_path_connecting: "to" is reached from "from" along
\* the edges.
RECURSIVE Reached(_, _)
Reached(es, seen) ==
    LET next == seen \cup {es[k].to : k \in {j \in DOMAIN es : es[j].from \in seen}}
    IN IF next = seen THEN seen ELSE Reached(es, next)

has_path_connecting(es, from, to) == to \in Reached(es, {from})

\* validate_multiple_writers.  The writers of a resource are collected by
\* name, one entry for every mention in writes or reads_writes.
WriterMentions(ns, resource_id) ==
    UNION {{<<n, list, i>> : i \in {j \in DOMAIN ns[n][list] : ns[n][list][j] = resource_id}} :
              n \in DOMAIN ns, list \in {"writes", "reads_writes"}}

writer_indices(ns, resource_id) ==
    LET names == {ns[m[1]].name : m \in WriterMentions(ns, resource_id)}
    IN {idx \in DOMAIN ns : ns[idx].name \in names}

has_valid_dependencies(ns, es, resource_id) ==
    LET indices == writer_indices(ns, resource_id)
    IN IF Cardinality(indices) = 2
       THEN \E a \in indices, b \in indices :
               a # b /\ (contains_edge(es, a, b) \/ contains_edge(es, b, a))
       ELSE \A i \in indices : \E j \in indices :
               /\ i # j
               /\ \/ contains_edge(es, i, j) \/ contains_edge(es, j, i)
                  \/ has_path_connecting(es, i, j) \/ has_path_connecting(es, j, i)

validate_multiple_writers(g) ==
    \A resource_id \in UNION {NodeResources(g.nodes[n]) : n \in DOMAIN g.nodes} :
       Cardinality(WriterMentions(g.nodes, resource_id)) > 1 =>
          has_valid_dependencies(g.nodes, g.edges, resource_id)

\* validate_missing_resources: the errors the resources that are read give.
\* The readers are walked in the order of a HashMap, so the call returns any
\* one of them.
validate_missing_resources(g) ==
    LET Readers(r) == {n \in DOMAIN g.nodes :
                          r \in Range(g.nodes[n].reads) \cup Range(g.nodes[n].reads_writes)}
        Writers(r) == {n \in DOMAIN g.nodes :
                          r \in Range(g.nodes[n].writes) \cup Range(g.nodes[n].reads_writes)}
        read == {r \in UNION {NodeResources(g.nodes[n]) : n \in DOMAIN g.nodes} :
                    Readers(r) # {}}
    IN {"used but not registered" : r \in {x \in read : x \notin DOMAIN g.descriptors}}
       \cup {"read but never written" :
                r \in {x \in read : /\ x \in DOMAIN g.descriptors
                                    /\ ~g.descriptors[x].is_external
                                    /\ Writers(x) = {}}}

validate_no_cycles(g) == toposort(g.nodes, g.edges).ok

\* validate: what it can return.
validate(g) ==
    IF ~validate_multiple_writers(g) THEN {"written by multiple passes without dependency"}
    ELSE IF validate_missing_resources(g) # {} THEN validate_missing_resources(g)
    ELSE IF ~validate_no_cycles(g) THEN {"Render graph contains cycles"}
    ELSE {"Ok"}

\* compute_store_ops of render_graph.rs: one value for a resource, Store for
\* an external one and for one that some pass reads.
rg_compute_store_ops(ns, descs, order) ==
    [resource_id \in DOMAIN descs |->
        IF descs[resource_id].is_external THEN Store
        ELSE IF \E i \in DOMAIN order :
                   resource_id \in Range(ns[order[i]].reads) \cup Range(ns[order[i]].reads_writes)
        THEN Store
        ELSE Discard]

\* can_alias_textures and compute_resource_aliasing of render_graph.rs: the
\* usage masks have to be equal, and only a buffer slot is widened.
rg_can_alias_textures(desc1, desc2) ==
    /\ desc1.format = desc2.format
    /\ desc1.width = desc2.width
    /\ desc1.height = desc2.height
    /\ desc1.sample_count = desc2.sample_count
    /\ desc1.mip_level_count = desc2.mip_level_count
    /\ desc1.usage = desc2.usage

rg_can_reuse(descriptor_info, resource_type) ==
    IF descriptor_info.variant = "Texture"
          /\ resource_type.variant \in {"TransientColor", "TransientDepth"}
    THEN rg_can_alias_textures(descriptor_info.tex, resource_type.tex)
    ELSE IF descriptor_info.variant = "Buffer" /\ resource_type.variant = "TransientBuffer"
    THEN can_alias_buffers(descriptor_info.buf, resource_type.buf)
    ELSE FALSE

rg_ReuseSlot(info, pool_index, lifetime, resource_type) ==
    LET slot == info.pools[pool_index]
        grown == IF slot.descriptor_info.variant = "Buffer"
                      /\ resource_type.variant = "TransientBuffer"
                      /\ resource_type.buf.size > slot.descriptor_info.buf.size
                 THEN [slot.descriptor_info EXCEPT !.buf = resource_type.buf]
                 ELSE slot.descriptor_info
    IN [info EXCEPT
          !.pools[pool_index] = PoolSlot(slot.resource, grown, lifetime.last_use),
          !.aliases = Put(info.aliases, lifetime.resource_id, pool_index)]

rg_AssignLifetime(info, lifetime, descs) ==
    LET resource_type == descs[lifetime.resource_id].resource_type
        reusable == {p \in ReusedCandidates(info, lifetime) :
                        rg_can_reuse(info.pools[p].descriptor_info, resource_type)}
        firsts == {p \in reusable : \A q \in reusable :
                        info.pools[p].lifetime_end <= info.pools[q].lifetime_end}
    IN IF reusable # {}
       THEN {rg_ReuseSlot(info, p, lifetime, resource_type) : p \in firsts}
       ELSE {NewSlot(info, lifetime, resource_type)}

RECURSIVE rg_AliasingPlans(_, _, _)
rg_AliasingPlans(remaining, info, descs) ==
    IF remaining = {} THEN {info}
    ELSE LET next == {lt \in remaining : \A o \in remaining : lt.first_use <= o.first_use}
         IN UNION { UNION { rg_AliasingPlans(remaining \ {lt}, info2, descs) :
                                info2 \in rg_AssignLifetime(info, lt, descs) } : lt \in next }

rg_compute_resource_aliasing(lifetimes, descs) ==
    rg_AliasingPlans(lifetimes, [some |-> TRUE, aliases |-> EmptyMap, pools |-> <<>>], descs)

\* compile of render_graph.rs: the graphs it can leave, each with what the
\* call returns.  The edges are added before validate runs and stay when it
\* fails.
rg_compiled(g) ==
    LET built == [g EXCEPT !.edges = build_dependency_edges(g.nodes, g.edges)]
        order == toposort(built.nodes, built.edges).order
    IN UNION {IF status # "Ok"
              THEN {[graph |-> built, status |-> status]}
              ELSE {[graph |-> [built EXCEPT
                                   !.execution_order = order,
                                   !.store_ops = rg_compute_store_ops(g.nodes, g.descriptors, order),
                                   !.aliasing_info = plan,
                                   !.needs_recompile = FALSE],
                     status |-> "Ok"] :
                       plan \in rg_compute_resource_aliasing(
                                   compute_resource_lifetimes(g.nodes, g.descriptors, order),
                                   g.descriptors)} :
              status \in validate(built)}

\* The round the properties follow in render_graph: a pass added to a
\* compiled graph, then removed, then the graph compiled.
NoTrip == [stage |-> "none", pass |-> "", execution_order |-> <<>>]

(***************************************************************************)
(* The operations of the API.                                              *)
(***************************************************************************)
\* What a call returns: Ok, or the variant of RenderGraphError with the
\* fields the properties look at.
Failure(op, status, detail) == [status |-> status, detail |-> detail]

Outcome(op, status) == Failure(op, status, <<>>)

Init ==
    /\ descriptors = EmptyMap
    /\ handles = EmptyMap
    /\ versions = EmptyMap
    /\ next_id = 0
    /\ nodes = <<>>
    /\ edges = <<>>
    /\ pass_nodes = EmptyMap
    /\ pass_resource_mappings = EmptyMap
    /\ sub_graphs = EmptyMap
    /\ execution_order = <<>>
    /\ store_ops = EmptyMap
    /\ aliasing_info = NoAliasingInfo
    /\ needs_recompile = TRUE
    /\ needs_resource_reallocation = FALSE
    /\ culled_passes = {}
    /\ resource_versions = EmptyMap
    /\ device = 0
    /\ result = Outcome("new", "Ok")
    /\ calls = <<>>
    /\ command_buffers = <<>>
    /\ render_graph = rg_new
    /\ history = [rebound |-> {},
                  frame |-> [ok |-> FALSE, disabled |-> {}, passes |-> 0,
                             execution_order |-> <<>>, culled_passes |-> {}],
                  trip |-> NoTrip]

register_external_resource(name, resource_type) ==
    /\ descriptors' = Put(descriptors, next_id, ResourceDescriptor(name, resource_type, TRUE))
    /\ next_id' = next_id + 1
    /\ result' = Outcome("register_external_resource", "Ok")
    /\ UNCHANGED <<handles, versions, graphVars, compiledVars, frameVars, history, render_graph>>

register_transient_resource(name, resource_type) ==
    /\ descriptors' = Put(descriptors, next_id, ResourceDescriptor(name, resource_type, FALSE))
    /\ next_id' = next_id + 1
    /\ result' = Outcome("register_transient_resource", "Ok")
    /\ UNCHANGED <<handles, versions, graphVars, compiledVars, frameVars, history, render_graph>>

set_external_texture(id, view) ==
    /\ handles' = Put(handles, id, ExternalTextureHandle(view))
    /\ result' = Outcome("set_external_texture", "Ok")
    /\ history' = [history EXCEPT !.rebound = @ \cup {id}]
    /\ UNCHANGED <<descriptors, versions, next_id, graphVars, compiledVars, frameVars,
                   render_graph>>

set_external_buffer(id, buffer) ==
    /\ handles' = Put(handles, id, ExternalBufferHandle(buffer))
    /\ result' = Outcome("set_external_buffer", "Ok")
    /\ history' = [history EXCEPT !.rebound = @ \cup {id}]
    /\ UNCHANGED <<descriptors, versions, next_id, graphVars, compiledVars, frameVars,
                   render_graph>>

\* update_transient_descriptor_unchecked is a variant without the test for an
\* external resource: the rejections of C15 do not survive it.
update_transient_descriptor_unchecked(descs, id, width, height) ==
    IF id \notin DOMAIN descs
    THEN [status |-> "ResourceNotFound", descriptors |-> descs]
    ELSE IF descs[id].resource_type.variant \in {"TransientColor", "TransientDepth"}
    THEN [status |-> "Ok",
          descriptors |-> [descs EXCEPT ![id].resource_type.tex.width = width,
                                        ![id].resource_type.tex.height = height]]
    ELSE IF descs[id].resource_type.variant = "TransientBuffer"
    THEN [status |-> "CannotResizeBuffer", descriptors |-> descs]
    ELSE [status |-> "CannotResizeNonTransient", descriptors |-> descs]

\* RenderGraphResources::update_transient_descriptor: the error, or the
\* descriptors after the call.
update_transient_descriptor(descs, id, width, height) ==
    IF id \notin DOMAIN descs
    THEN [status |-> "ResourceNotFound", descriptors |-> descs]
    ELSE IF descs[id].is_external
    THEN [status |-> "CannotResizeExternal", descriptors |-> descs]
    ELSE IF descs[id].resource_type.variant \in {"TransientColor", "TransientDepth"}
    THEN [status |-> "Ok",
          descriptors |-> [descs EXCEPT ![id].resource_type.tex.width = width,
                                        ![id].resource_type.tex.height = height]]
    ELSE IF descs[id].resource_type.variant = "TransientBuffer"
    THEN [status |-> "CannotResizeBuffer", descriptors |-> descs]
    ELSE [status |-> "CannotResizeNonTransient", descriptors |-> descs]

\* resize_transient_resource_keeping_handles is a variant that leaves the
\* handles alone: the effects of C14 do not survive it.
resize_transient_resource_keeping_handles(id, width, height) ==
    LET updated == update_transient_descriptor(descriptors, id, width, height)
    IN /\ result' = Outcome("resize_transient_resource", updated.status)
       /\ IF updated.status # "Ok"
          THEN UNCHANGED <<registryVars, compiledVars>>
          ELSE /\ descriptors' = updated.descriptors
               /\ aliasing_info' = NoAliasingInfo
               /\ needs_resource_reallocation' = TRUE
               /\ UNCHANGED <<handles, versions, next_id, execution_order, store_ops,
                              needs_recompile, culled_passes>>
       /\ UNCHANGED <<graphVars, frameVars, history, render_graph>>

resize_transient_resource(id, width, height) ==
    LET updated == update_transient_descriptor(descriptors, id, width, height)
    IN /\ result' = Outcome("resize_transient_resource", updated.status)
       /\ IF updated.status # "Ok"
          THEN UNCHANGED <<registryVars, compiledVars>>
          ELSE /\ descriptors' = updated.descriptors
               /\ aliasing_info' = NoAliasingInfo
               /\ handles' = Retain(handles, {x \in DOMAIN descriptors' :
                                                  descriptors'[x].is_external})
               /\ needs_resource_reallocation' = TRUE
               /\ UNCHANGED <<versions, next_id, execution_order, store_ops,
                              needs_recompile, culled_passes>>
       /\ UNCHANGED <<graphVars, frameVars, history, render_graph>>

\* A pass as add_pass sees it: its name and the slot names it declares.
PassNode(name, reads, writes, reads_writes) ==
    [name |-> name, reads |-> reads, writes |-> writes, reads_writes |-> reads_writes]

DeclaredSlots(pass) == pass.reads \o pass.writes \o pass.reads_writes

Resolve(slots, mappings) == [k \in 1..Len(slots) |-> mappings[slots[k]]]

\* add_pass_unchecked is a variant that skips a slot that is not mapped
\* instead of failing: the rejection of C16 does not survive it.
add_pass_unchecked(pass, mappings) ==
    LET Mapped(slots) == SelectSeq(slots, LAMBDA slot : slot \in DOMAIN mappings)
    IN /\ nodes' = Append(nodes, GraphNode(pass.name,
                                    Resolve(Mapped(pass.reads), mappings),
                                    Resolve(Mapped(pass.writes), mappings),
                                    Resolve(Mapped(pass.reads_writes), mappings)))
       /\ pass_nodes' = Put(pass_nodes, pass.name, Len(nodes) + 1)
       /\ pass_resource_mappings' = Put(pass_resource_mappings, pass.name, mappings)
       /\ needs_recompile' = TRUE
       /\ result' = Outcome("add_pass", "Ok")
       /\ UNCHANGED <<registryVars, edges, sub_graphs, execution_order, store_ops,
                      aliasing_info, needs_resource_reallocation, culled_passes,
                      frameVars, history, render_graph>>

\* add_pass_mappings_dropped is a variant that does not keep the slot
\* mappings of the pass: the table of C24 does not survive it.
add_pass_mappings_dropped(pass, mappings) ==
    /\ nodes' = Append(nodes, GraphNode(pass.name,
                                 Resolve(pass.reads, mappings),
                                 Resolve(pass.writes, mappings),
                                 Resolve(pass.reads_writes, mappings)))
    /\ pass_nodes' = Put(pass_nodes, pass.name, Len(nodes) + 1)
    /\ pass_resource_mappings' = Put(pass_resource_mappings, pass.name, EmptyMap)
    /\ needs_recompile' = TRUE
    /\ result' = Outcome("add_pass", "Ok")
    /\ UNCHANGED <<registryVars, edges, sub_graphs, execution_order, store_ops,
                   aliasing_info, needs_resource_reallocation, culled_passes,
                   frameVars, history, render_graph>>

add_pass(pass, mappings) ==
    LET unmapped == SelectSeq(DeclaredSlots(pass), LAMBDA slot : slot \notin DOMAIN mappings)
    IN IF unmapped # <<>>
       THEN /\ result' = Failure("add_pass", "SlotNotMapped",
                                 [pass |-> pass.name, slot |-> unmapped[1]])
            /\ UNCHANGED <<registryVars, graphVars, compiledVars, frameVars, history, render_graph>>
       ELSE /\ nodes' = Append(nodes, GraphNode(pass.name,
                                         Resolve(pass.reads, mappings),
                                         Resolve(pass.writes, mappings),
                                         Resolve(pass.reads_writes, mappings)))
            /\ pass_nodes' = Put(pass_nodes, pass.name, Len(nodes) + 1)
            /\ pass_resource_mappings' = Put(pass_resource_mappings, pass.name, mappings)
            /\ needs_recompile' = TRUE
            /\ result' = Outcome("add_pass", "Ok")
            /\ UNCHANGED <<registryVars, edges, sub_graphs, execution_order, store_ops,
                           aliasing_info, needs_resource_reallocation, culled_passes,
                           frameVars, history, render_graph>>

\* sub_graphs and sub_graph_inputs: the input slots, and of the nested graph
\* the variants of its external resources by name.
add_sub_graph(name, input_slots, externals) ==
    /\ sub_graphs' = Put(sub_graphs, name, [input_slots |-> input_slots, externals |-> externals])
    /\ result' = Outcome("add_sub_graph", "Ok")
    /\ UNCHANGED <<registryVars, nodes, edges, pass_nodes, pass_resource_mappings,
                   compiledVars, frameVars, history, render_graph>>

SetCompiled(c) ==
    /\ edges' = c.edges
    /\ execution_order' = c.execution_order
    /\ store_ops' = c.store_ops
    /\ aliasing_info' = c.aliasing_info
    /\ culled_passes' = c.culled_passes
    /\ needs_recompile' = c.needs_recompile
    /\ needs_resource_reallocation' = c.needs_resource_reallocation

compile ==
    \E c \in CompileFrom(edges) :
        /\ SetCompiled(c)
        /\ result' = Outcome("compile", IF c.ok THEN "Ok" ELSE "CyclicDependency")
        /\ UNCHANGED <<registryVars, nodes, pass_nodes, pass_resource_mappings, sub_graphs,
                       frameVars, history, render_graph>>

\* RenderGraph::execute: the frames a call can make, one for every aliasing
\* plan compute_resource_aliasing can give.  execute_frames_culling_disabled
\* is a variant that adds the passes the config disables to the culled set:
\* the independence of C23 does not survive it.
execute_frames_culling_disabled(disabled, failing, commands, sub_results) ==
    UNION {IF ~c.ok
           THEN {[compiled |-> c, handles |-> handles, versions |-> versions,
                  device |-> device, resource_versions |-> resource_versions,
                  calls |-> <<>>, command_buffers |-> <<>>, status |-> "CyclicDependency"]}
           ELSE {LET allocated == allocate_transient_resources_with_aliasing(
                                     descriptors, handles, versions, c.store_ops, plan, device)
                     changed == invalidate_bind_groups_for_changed_resources(
                                     descriptors, allocated.versions, resource_versions,
                                     nodes, c.execution_order)
                     serial == execute_serial(nodes, c.execution_order, c.culled_passes,
                                     pass_resource_mappings, sub_graphs, disabled, failing,
                                     commands, sub_results)
                 IN [compiled |-> [c EXCEPT !.aliasing_info = allocated.aliasing_info],
                     handles |-> allocated.handles,
                     versions |-> allocated.versions,
                     device |-> allocated.device,
                     resource_versions |-> changed.resource_versions,
                     calls |-> InvalidateCalls(changed.passes_to_invalidate)
                               \o PrepareCalls(nodes, c.execution_order, c.culled_passes,
                                               disabled)
                               \o serial.calls,
                     command_buffers |-> serial.command_buffers,
                     status |-> serial.status] :
                    plan \in (IF c.aliasing_info.some THEN {c.aliasing_info}
                              ELSE compute_resource_aliasing(
                                      compute_resource_lifetimes(nodes, descriptors,
                                                                 c.execution_order),
                                      descriptors))} :
           c \in {[r EXCEPT !.culled_passes = @ \cup {n \in DOMAIN nodes : nodes[n].name \in disabled}] :
                   r \in recompile_if_needed}}

execute_frames(disabled, failing, commands, sub_results) ==
    UNION {IF ~c.ok
           THEN {[compiled |-> c, handles |-> handles, versions |-> versions,
                  device |-> device, resource_versions |-> resource_versions,
                  calls |-> <<>>, command_buffers |-> <<>>, status |-> "CyclicDependency"]}
           ELSE {LET allocated == allocate_transient_resources_with_aliasing(
                                     descriptors, handles, versions, c.store_ops, plan, device)
                     changed == invalidate_bind_groups_for_changed_resources(
                                     descriptors, allocated.versions, resource_versions,
                                     nodes, c.execution_order)
                     serial == execute_serial(nodes, c.execution_order, c.culled_passes,
                                     pass_resource_mappings, sub_graphs, disabled, failing,
                                     commands, sub_results)
                 IN [compiled |-> [c EXCEPT !.aliasing_info = allocated.aliasing_info],
                     handles |-> allocated.handles,
                     versions |-> allocated.versions,
                     device |-> allocated.device,
                     resource_versions |-> changed.resource_versions,
                     calls |-> InvalidateCalls(changed.passes_to_invalidate)
                               \o PrepareCalls(nodes, c.execution_order, c.culled_passes,
                                               disabled)
                               \o serial.calls,
                     command_buffers |-> serial.command_buffers,
                     status |-> serial.status] :
                    plan \in (IF c.aliasing_info.some THEN {c.aliasing_info}
                              ELSE compute_resource_aliasing(
                                      compute_resource_lifetimes(nodes, descriptors,
                                                                 c.execution_order),
                                      descriptors))} :
           c \in recompile_if_needed}

execute(disabled, failing, commands, sub_results) ==
    \E frame \in execute_frames(disabled, failing, commands, sub_results) :
        /\ SetCompiled(frame.compiled)
        /\ handles' = frame.handles
        /\ versions' = frame.versions
        /\ device' = frame.device
        /\ resource_versions' = frame.resource_versions
        /\ calls' = frame.calls
        /\ command_buffers' = frame.command_buffers
        /\ result' = Outcome("execute", frame.status)
        /\ history' = [history EXCEPT
                          !.rebound = {},
                          !.frame = [ok |-> frame.status = "Ok", disabled |-> disabled,
                                     passes |-> Len(nodes),
                                     execution_order |-> frame.compiled.execution_order,
                                     culled_passes |-> frame.compiled.culled_passes]]
        /\ UNCHANGED <<descriptors, next_id, nodes, pass_nodes,
                       pass_resource_mappings, sub_graphs, render_graph>>

(***************************************************************************)
(* The operations of the RenderGraph of src/render_graph.rs.               *)
(***************************************************************************)
libVars == <<registryVars, graphVars, compiledVars, frameVars>>

rg_register_external_resource(name, resource_type) ==
    /\ render_graph' = [render_graph EXCEPT
                           !.descriptors = Put(@, render_graph.next_id,
                                               ResourceDescriptor(name, resource_type, TRUE)),
                           !.next_id = @ + 1]
    /\ result' = Outcome("register_external_resource", "Ok")
    /\ history' = [history EXCEPT !.trip = NoTrip]
    /\ UNCHANGED libVars

rg_register_transient_resource(name, resource_type) ==
    /\ render_graph' = [render_graph EXCEPT
                           !.descriptors = Put(@, render_graph.next_id,
                                               ResourceDescriptor(name, resource_type, FALSE)),
                           !.next_id = @ + 1]
    /\ result' = Outcome("register_transient_resource", "Ok")
    /\ history' = [history EXCEPT !.trip = NoTrip]
    /\ UNCHANGED libVars

\* add_pass of render_graph.rs: the pass comes with its resource ids.
rg_add_pass(node) ==
    /\ render_graph' = [render_graph EXCEPT
                           !.nodes = Append(@, node),
                           !.pass_nodes = Put(@, node.name, Len(render_graph.nodes) + 1),
                           !.passes = @ \cup {node.name},
                           !.needs_recompile = TRUE]
    /\ result' = Outcome("add_pass", "Ok")
    /\ history' = [history EXCEPT
                      !.trip = IF render_graph.needs_recompile THEN NoTrip
                               ELSE [stage |-> "added", pass |-> node.name,
                                     execution_order |-> render_graph.execution_order]]
    /\ UNCHANGED libVars

\* rg_remove_pass_keeping_node is a variant that forgets the node of the
\* graph: the round of C18 does not survive it.
rg_remove_pass_keeping_node(pass_name) ==
    /\ IF pass_name \notin DOMAIN render_graph.pass_nodes
       THEN /\ render_graph' = render_graph
            /\ result' = Outcome("remove_pass", "None")
       ELSE /\ render_graph' = [render_graph EXCEPT
                                   !.pass_nodes = Retain(@, DOMAIN @ \ {pass_name}),
                                   !.passes = @ \ {pass_name},
                                   !.needs_recompile = TRUE]
            /\ result' = Outcome("remove_pass",
                                 IF pass_name \in render_graph.passes THEN "Some" ELSE "None")
    /\ history' = [history EXCEPT
                      !.trip = IF @.stage = "added" /\ @.pass = pass_name
                               THEN [@ EXCEPT !.stage = "removed"]
                               ELSE NoTrip]
    /\ UNCHANGED libVars

rg_remove_pass(pass_name) ==
    /\ IF pass_name \notin DOMAIN render_graph.pass_nodes
       THEN /\ render_graph' = render_graph
            /\ result' = Outcome("remove_pass", "None")
       ELSE LET removed == remove_node(render_graph.nodes, render_graph.edges,
                                       render_graph.pass_nodes[pass_name])
            IN /\ render_graph' = [render_graph EXCEPT
                                      !.pass_nodes = Retain(@, DOMAIN @ \ {pass_name}),
                                      !.nodes = removed.nodes,
                                      !.edges = removed.edges,
                                      !.passes = @ \ {pass_name},
                                      !.needs_recompile = TRUE]
               /\ result' = Outcome("remove_pass",
                                    IF pass_name \in render_graph.passes THEN "Some" ELSE "None")
    /\ history' = [history EXCEPT
                      !.trip = IF @.stage = "added" /\ @.pass = pass_name
                               THEN [@ EXCEPT !.stage = "removed"]
                               ELSE NoTrip]
    /\ UNCHANGED libVars

rg_compile ==
    \E c \in rg_compiled(render_graph) :
        /\ render_graph' = c.graph
        /\ result' = Outcome("compile", c.status)
        /\ history' = [history EXCEPT
                          !.trip = IF @.stage = "added" THEN @
                                   ELSE IF @.stage = "removed"
                                   THEN [@ EXCEPT !.stage = "returned"]
                                   ELSE NoTrip]
        /\ UNCHANGED libVars

(***************************************************************************)
(* The caller: the inputs the operations are tried with.                   *)
(***************************************************************************)
ResourceNames == <<"r0", "r1", "r2", "r3", "r4", "r5">>

PassNames == <<"p1", "p2", "p3", "p4", "p5", "p6">>

Views == {"V1", "V2"}

Buffers == {"B1", "B2"}

Sizes == {<<2, 2>>}

TransientTypes == {TransientColor(DefaultColorDescriptor, FALSE)}

\* The passes of the caller: one that only writes, one that reads one slot
\* and writes another, one that works in place and one that only reads.
PassShapes(name) ==
    {PassNode(name, <<>>, <<"output">>, <<>>),
     PassNode(name, <<"input">>, <<"output">>, <<>>),
     PassNode(name, <<>>, <<>>, <<"target">>),
     PassNode(name, <<"input">>, <<>>, <<>>)}

\* Every way to map the declared slots to registered resources: a pass
\* writes anywhere and works in place anywhere, it reads (slot "input")
\* transient resources, and no two of its slots name the same resource.
\* The transient resources are alike, and the caller takes them into use in
\* the order it registered them.
MappingsFor(pass) ==
    {m \in [Range(DeclaredSlots(pass)) -> DOMAIN descriptors] :
        /\ \A s, t \in DOMAIN m : s # t => m[s] # m[t]
        /\ "input" \in DOMAIN m => ~descriptors[m["input"]].is_external
        /\ \A t \in Range(m), u \in DOMAIN descriptors :
              (~descriptors[t].is_external /\ ~descriptors[u].is_external /\ u < t) =>
                 \/ u \in Range(m)
                 \/ \E n \in DOMAIN nodes : u \in NodeResources(nodes[n])}

Configs == {{}} \cup {{nodes[n].name} : n \in DOMAIN nodes}

\* The caller registers its external target, if it has one, first.
RegisterExternal ==
    /\ next_id = 0
    /\ next_id < MaxResources
    /\ register_external_resource(ResourceNames[next_id + 1], ExternalColor(FALSE, TRUE))

\* It registers its transient resources next, before it adds its passes.
RegisterTransient ==
    /\ next_id > 0
    /\ nodes = <<>>
    /\ next_id < MaxResources
    /\ \E rt \in TransientTypes : register_transient_resource(ResourceNames[next_id + 1], rt)

RegisterExternalBuffer ==
    /\ next_id = 0
    /\ next_id < MaxResources
    /\ register_external_resource(ResourceNames[next_id + 1], ExternalBuffer)

SetExternalTexture ==
    \E id \in {x \in DOMAIN descriptors : descriptors[x].resource_type.variant = "ExternalColor"},
       view \in Views :
        set_external_texture(id, view)

SetExternalBuffer ==
    \E id \in {x \in DOMAIN descriptors : descriptors[x].resource_type.variant = "ExternalBuffer"},
       buffer \in Buffers :
        set_external_buffer(id, buffer)

Resize ==
    \E id \in DOMAIN descriptors, size \in Sizes :
        resize_transient_resource(id, size[1], size[2])

AddPass ==
    /\ Len(nodes) < MaxPasses
    /\ \E pass \in PassShapes(PassNames[Len(nodes) + 1]) :
          \E mappings \in MappingsFor(pass) : add_pass(pass, mappings)

\* The caller compiles a graph it has changed since the last compile.
Compile ==
    /\ needs_recompile
    /\ compile

\* The caller runs frames until the device has made MaxObjects textures.
Execute ==
    /\ device < MaxObjects
    /\ \E disabled \in Configs : execute(disabled, {}, EmptyMap, EmptyMap)

Next ==
    \/ RegisterExternal
    \/ RegisterTransient
    \/ AddPass
    \/ Compile
    \/ Execute

Spec == Init /\ [][Next]_vars

\* The same, with the caller resizing transient textures between frames.
NextResize ==
    \/ RegisterExternal
    \/ RegisterTransient
    \/ AddPass
    \/ Compile
    \/ Execute
    \/ Resize

SpecResize == Init /\ [][NextResize]_vars

\* The same, with the caller binding its external resources between frames:
\* it runs a frame once every external resource has a handle.
ExecuteBound ==
    /\ \A id \in DOMAIN descriptors : descriptors[id].is_external => id \in DOMAIN handles
    /\ Execute

NextRebind ==
    \/ RegisterExternal
    \/ RegisterTransient
    \/ AddPass
    \/ Compile
    \/ ExecuteBound
    \/ RegisterExternalBuffer
    \/ SetExternalTexture
    \/ SetExternalBuffer

SpecRebind == Init /\ [][NextRebind]_vars

(***************************************************************************)
(* The same caller with a sub-graph: it registers the sub-graph "bloom",   *)
(* whose input slot "src" is an external colour texture of the nested      *)
(* graph, and one of its passes asks for runs of a sub-graph.              *)
(***************************************************************************)
BloomRun == SubGraphRunCommand("bloom", <<"TextureView">>)

\* What one frame asks of the sub-graph: the commands the requesting pass
\* returns, whether that pass fails, and what the execute of the nested graph
\* returns.
FrameScripts ==
    {[list |-> <<BloomRun>>, fails |-> FALSE, sub_result |-> [ok |-> TRUE, buffers |-> 2]],
     [list |-> <<BloomRun, BloomRun>>, fails |-> FALSE, sub_result |-> [ok |-> TRUE, buffers |-> 1]],
     [list |-> <<BloomRun>>, fails |-> FALSE, sub_result |-> [ok |-> FALSE, buffers |-> 0]],
     [list |-> <<SubGraphRunCommand("bloom", <<"Buffer">>)>>, fails |-> FALSE,
      sub_result |-> [ok |-> TRUE, buffers |-> 1]]}

\* The sub-graph is registered before the passes are added.
AddSubGraph ==
    /\ "bloom" \notin DOMAIN sub_graphs
    /\ nodes = <<>>
    /\ add_sub_graph("bloom", <<"src">>, [x \in {"src"} |-> "ExternalColor"])

ExecuteWithSubGraphs ==
    /\ device < MaxObjects
    /\ \E n \in DOMAIN nodes, script \in FrameScripts :
          execute({}, IF script.fails THEN {nodes[n].name} ELSE {},
                  [x \in {nodes[n].name} |-> script.list],
                  [x \in DOMAIN sub_graphs |-> script.sub_result])

NextSub ==
    \/ RegisterExternal
    \/ RegisterTransient
    \/ AddPass
    \/ AddSubGraph
    \/ ExecuteWithSubGraphs

SpecSub == Init /\ [][NextSub]_vars

(***************************************************************************)
(* The same caller with transient textures of two usage masks              *)
(* (ColorTextureBuilder::usage).                                           *)
(***************************************************************************)
usage(descriptor, mask) == [descriptor EXCEPT !.usage = mask]

UsageMasks == {{"RENDER_ATTACHMENT", "TEXTURE_BINDING"}, {"RENDER_ATTACHMENT", "STORAGE_BINDING"}}

RegisterTransientUsage ==
    /\ next_id > 0
    /\ nodes = <<>>
    /\ next_id < MaxResources
    /\ \E mask \in UsageMasks :
          register_transient_resource(ResourceNames[next_id + 1],
                                      TransientColor(usage(DefaultColorDescriptor, mask), FALSE))

NextUsage ==
    \/ RegisterExternal
    \/ RegisterTransientUsage
    \/ AddPass
    \/ Compile

SpecUsage == Init /\ [][NextUsage]_vars

(***************************************************************************)
(* The same caller with an external colour or depth target registered with *)
(* no_store (force_store = false) and bound before the frames.             *)
(***************************************************************************)
RegisterExternalNoStore ==
    /\ next_id = 0
    /\ next_id < MaxResources
    /\ \E rt \in {ExternalColor(FALSE, FALSE), ExternalDepth(TRUE, FALSE)} :
          register_external_resource(ResourceNames[next_id + 1], rt)

SetExternalAttachment ==
    \E id \in {x \in DOMAIN descriptors : descriptors[x].is_external}, view \in Views :
        /\ id \notin DOMAIN handles
        /\ set_external_texture(id, view)

NextNoStore ==
    \/ RegisterExternalNoStore
    \/ RegisterTransient
    \/ SetExternalAttachment
    \/ AddPass
    \/ Compile
    \/ ExecuteBound

SpecNoStore == Init /\ [][NextNoStore]_vars

(***************************************************************************)
(* The same caller resizing between frames.  It binds its external target  *)
(* as soon as it has registered it, its first transient resource may be a  *)
(* buffer, it adds its passes before the first frame that allocates, and   *)
(* after that frame it calls resize_transient_resource with any            *)
(* identifier, one it never registered included.                           *)
(***************************************************************************)
BindTarget ==
    /\ next_id = 1
    /\ 0 \notin DOMAIN handles
    /\ set_external_texture(0, "V1")

TargetBound ==
    \A id \in DOMAIN descriptors : descriptors[id].is_external => id \in DOMAIN handles

RegisterTransientBuffer ==
    /\ next_id = 1
    /\ nodes = <<>>
    /\ next_id < MaxResources
    /\ register_transient_resource(ResourceNames[next_id + 1],
                                   TransientBuffer(DefaultBufferDescriptor))

\* A frame with every pass enabled.
RunFrame ==
    /\ TargetBound
    /\ device < MaxObjects
    /\ execute({}, {}, EmptyMap, EmptyMap)

ResizeAny ==
    /\ device > 0
    /\ \E id \in 0..next_id, size \in Sizes :
          resize_transient_resource(id, size[1], size[2])

NextSizes ==
    \/ RegisterExternal
    \/ BindTarget
    \/ TargetBound /\ RegisterTransient
    \/ TargetBound /\ RegisterTransientBuffer
    \/ device = 0 /\ AddPass
    \/ RunFrame
    \/ ResizeAny

SpecSizes == Init /\ [][NextSizes]_vars

(***************************************************************************)
(* The same caller building its graph, at times with a slot left out of    *)
(* the mappings it hands to add_pass.                                      *)
(***************************************************************************)
PartialMappingsFor(pass) ==
    {Retain(m, keep) : m \in MappingsFor(pass),
                       keep \in (SUBSET Range(DeclaredSlots(pass))) \ {Range(DeclaredSlots(pass))}}

AddPassUnmapped ==
    /\ Len(nodes) < MaxPasses
    /\ \E pass \in PassShapes(PassNames[Len(nodes) + 1]) :
          \E mappings \in PartialMappingsFor(pass) : add_pass(pass, mappings)

NextSlots ==
    \/ RegisterExternal
    \/ RegisterTransient
    \/ AddPass
    \/ AddPassUnmapped
    \/ Compile

SpecSlots == Init /\ [][NextSlots]_vars

(***************************************************************************)
(* The same caller running a frame again: nothing was added, compiled,     *)
(* resized or bound since the last frame, which succeeded, and the config  *)
(* is the one of that frame.                                               *)
(***************************************************************************)
FrameStands ==
    /\ history.frame.ok
    /\ history.rebound = {}
    /\ history.frame.passes = Len(nodes)
    /\ ~needs_recompile
    /\ ~needs_resource_reallocation

ExecuteAgain ==
    /\ FrameStands
    /\ execute(history.frame.disabled, {}, EmptyMap, EmptyMap)

NextRepeat ==
    \/ RegisterExternal
    \/ RegisterTransient
    \/ AddPass
    \/ Execute
    \/ ExecuteAgain

SpecRepeat == Init /\ [][NextRepeat]_vars

(***************************************************************************)
(* A caller that builds and compiles its graph with one of the two         *)
(* engines: RenderGraph of lib.rs, or RenderGraph of render_graph.rs,      *)
(* where it also removes passes.  It compiles at any time.                 *)
(***************************************************************************)
MappingsIn(pass, descs, ns) ==
    {m \in [Range(DeclaredSlots(pass)) -> DOMAIN descs] :
        /\ \A s, t \in DOMAIN m : s # t => m[s] # m[t]
        /\ "input" \in DOMAIN m => ~descs[m["input"]].is_external
        /\ \A t \in Range(m), u \in DOMAIN descs :
              (~descs[t].is_external /\ ~descs[u].is_external /\ u < t) =>
                 \/ u \in Range(m)
                 \/ \E n \in DOMAIN ns : u \in NodeResources(ns[n])}

\* The first name the graph has no pass for.
FreshPassName ==
    PassNames[CHOOSE k \in DOMAIN PassNames :
                 /\ PassNames[k] \notin render_graph.passes
                 /\ \A j \in 1..(k - 1) : PassNames[j] \in render_graph.passes]

UsesLib == render_graph = rg_new

UsesRenderGraph == next_id = 0

CompileAgain ==
    /\ ~needs_recompile
    /\ compile

RgRegisterExternal ==
    /\ render_graph.next_id = 0
    /\ render_graph.next_id < MaxResources
    /\ rg_register_external_resource(ResourceNames[render_graph.next_id + 1],
                                     ExternalColor(FALSE, TRUE))

RgRegisterTransient ==
    /\ render_graph.next_id > 0
    /\ render_graph.passes = {}
    /\ render_graph.next_id < MaxResources
    /\ \E rt \in TransientTypes :
          rg_register_transient_resource(ResourceNames[render_graph.next_id + 1], rt)

RgAddPass ==
    /\ Len(render_graph.nodes) < MaxPasses
    /\ \E pass \in PassShapes(FreshPassName) :
          \E mappings \in MappingsIn(pass, render_graph.descriptors, render_graph.nodes) :
             rg_add_pass(GraphNode(pass.name,
                                   Resolve(pass.reads, mappings),
                                   Resolve(pass.writes, mappings),
                                   Resolve(pass.reads_writes, mappings)))

\* It removes a pass it has added to a compiled graph, before it adds
\* another one.
RgRemovePass ==
    /\ history.trip.stage = "added"
    /\ rg_remove_pass(history.trip.pass)

RgCompile == rg_compile

NextBuild ==
    \/ UsesLib /\ RegisterExternal
    \/ UsesLib /\ RegisterTransient
    \/ UsesLib /\ AddPass
    \/ UsesLib /\ Compile
    \/ UsesLib /\ CompileAgain
    \/ UsesRenderGraph /\ RgRegisterExternal
    \/ UsesRenderGraph /\ RgRegisterTransient
    \/ UsesRenderGraph /\ RgAddPass
    \/ UsesRenderGraph /\ RgRemovePass
    \/ UsesRenderGraph /\ RgCompile

SpecBuild == Init /\ [][NextBuild]_vars

(***************************************************************************)
(* A caller whose frames fail: one of its passes returns an error, or asks *)
(* for a sub-graph that is not registered ("glow"), or hands "bloom" a     *)
(* buffer for its texture input after a run that went well, or the nested  *)
(* graph fails.  The field error of a script is the error its pass meets.  *)
(***************************************************************************)
FailureScripts ==
    {[list |-> <<>>, fails |-> TRUE, sub_result |-> [ok |-> TRUE, buffers |-> 1],
      error |-> "PassError"],
     [list |-> <<SubGraphRunCommand("glow", <<"TextureView">>)>>, fails |-> FALSE,
      sub_result |-> [ok |-> TRUE, buffers |-> 1], error |-> "SubGraphNotFound"],
     [list |-> <<BloomRun, SubGraphRunCommand("bloom", <<"Buffer">>)>>, fails |-> FALSE,
      sub_result |-> [ok |-> TRUE, buffers |-> 1], error |-> "SubGraphInputTypeMismatch"],
     [list |-> <<BloomRun>>, fails |-> FALSE, sub_result |-> [ok |-> FALSE, buffers |-> 0],
      error |-> "SubGraphError"],
     [list |-> <<BloomRun>>, fails |-> FALSE, sub_result |-> [ok |-> TRUE, buffers |-> 1],
      error |-> "Ok"]}

\* The frame in which the pass at node index n follows the script.
execute_script(n, script) ==
    execute({}, IF script.fails THEN {nodes[n].name} ELSE {},
            [x \in {nodes[n].name} |-> script.list],
            [x \in DOMAIN sub_graphs |-> script.sub_result])

\* It runs frames until the device has made a texture.
ExecuteFailing ==
    /\ "bloom" \in DOMAIN sub_graphs
    /\ device = 0
    /\ \E n \in DOMAIN nodes, script \in FailureScripts : execute_script(n, script)

\* The graph is built before the first frame.
NextFail ==
    \/ RegisterExternal
    \/ RegisterTransient
    \/ calls = <<>> /\ AddPass
    \/ AddSubGraph
    \/ ExecuteFailing

SpecFail == Init /\ [][NextFail]_vars

(***************************************************************************)
(* A caller that builds its graph and then runs frames under its configs,  *)
(* until the device has made a texture.                                    *)
(***************************************************************************)
ExecuteConfig ==
    /\ device = 0
    /\ \E disabled \in Configs : execute(disabled, {}, EmptyMap, EmptyMap)

NextConfig ==
    \/ RegisterExternal
    \/ RegisterTransient
    \/ history.frame.passes = 0 /\ AddPass
    \/ ExecuteConfig

SpecConfig == Init /\ [][NextConfig]_vars

(***************************************************************************)
(* A caller that does not keep the names of its passes apart: it adds a    *)
(* pass under a name the graph already has, or under the next new one, and *)
(* at times it leaves a slot out of the mappings.                          *)
(***************************************************************************)
\* GraphNode.pass: the pass of a vertex, which is the one of the caller's
\* passes of that name that declares as many slots of each kind as the
\* vertex has resources.
pass_of(node) ==
    CHOOSE pass \in PassShapes(node.name) :
        /\ Len(pass.reads) = Len(node.reads)
        /\ Len(pass.writes) = Len(node.writes)
        /\ Len(pass.reads_writes) = Len(node.reads_writes)

AddPassNamed ==
    /\ Len(nodes) < MaxPasses
    /\ \E k \in 1..(Len(nodes) + 1) :
          \E pass \in PassShapes(PassNames[k]) :
             \E mappings \in MappingsFor(pass) : add_pass(pass, mappings)

NextNames ==
    \/ RegisterExternal
    \/ RegisterTransient
    \/ AddPassNamed
    \/ AddPassUnmapped

SpecNames == Init /\ [][NextNames]_vars

(***************************************************************************)
(* A caller that makes ResourceIds of its own (ResourceId::new): it maps a *)
(* slot to any id up to the next one the registry will hand out.           *)
(***************************************************************************)
AnyMappingsFor(pass) ==
    {m \in [Range(DeclaredSlots(pass)) -> 0..next_id] :
        \A s, t \in DOMAIN m : s # t => m[s] # m[t]}

AddPassAnyId ==
    /\ Len(nodes) < MaxPasses
    /\ \E pass \in PassShapes(PassNames[Len(nodes) + 1]) :
          \E mappings \in AnyMappingsFor(pass) : add_pass(pass, mappings)

NextAnyId ==
    \/ RegisterExternal
    \/ RegisterTransient
    \/ AddPassAnyId

SpecAnyId == Init /\ [][NextAnyId]_vars

(***************************************************************************)
(* A caller that runs frames of a graph it has added no pass to: it        *)
(* registers resources, binds and resizes them, compiles and executes.     *)
(***************************************************************************)
ExecuteEmpty ==
    /\ nodes = <<>>
    /\ execute({}, {}, EmptyMap, EmptyMap)

NextEmpty ==
    \/ RegisterExternal
    \/ RegisterTransient
    \/ RegisterTransientBuffer
    \/ SetExternalTexture
    \/ Resize
    \/ Compile
    \/ ExecuteEmpty

SpecEmpty == Init /\ [][NextEmpty]_vars

(***************************************************************************)
(* A caller whose graph grows between frames: it runs frames with every    *)
(* pass enabled, adds passes after a frame, and adds one pass more than    *)
(* the other callers once a frame has run with MaxPasses passes.           *)
(***************************************************************************)
ExecuteGrown ==
    /\ device <= MaxObjects
    /\ execute({}, {}, EmptyMap, EmptyMap)

AddPassLate ==
    /\ Len(nodes) = MaxPasses
    /\ history.frame.ok
    /\ history.frame.passes = MaxPasses
    /\ \E pass \in PassShapes(PassNames[MaxPasses + 1]) :
          \E mappings \in MappingsFor(pass) : add_pass(pass, mappings)

NextGrow ==
    \/ RegisterExternal
    \/ RegisterTransient
    \/ AddPass
    \/ AddPassLate
    \/ ExecuteGrown

SpecGrow == Init /\ [][NextGrow]_vars

(***************************************************************************)
(* A caller that runs a frame, with any of its passes disabled, each time  *)
(* its graph has grown: a frame allocates what was registered since the    *)
(* frame before it.                                                        *)
(***************************************************************************)
ExecuteDirty ==
    /\ device <= MaxObjects
    /\ history.frame.passes < Len(nodes)
    /\ \E disabled \in Configs : execute(disabled, {}, EmptyMap, EmptyMap)

NextDirty ==
    \/ RegisterExternal
    \/ RegisterTransient
    \/ AddPass
    \/ ExecuteDirty

SpecDirty == Init /\ [][NextDirty]_vars

(***************************************************************************)
(* A caller with transient resources of several kinds: colour textures     *)
(* that differ in size, in usage, in array layers or in dimension, a depth *)
(* texture, and buffers that differ in size or in usage.  Its passes work  *)
(* in place on one resource each, so that the resources of different       *)
(* passes have disjoint lifetimes.                                         *)
(***************************************************************************)
MaxKinds == MaxObjects + 1

KindTypes ==
    {TransientColor(DefaultColorDescriptor, FALSE),
     TransientColor([DefaultColorDescriptor EXCEPT !.width = 2, !.height = 2], FALSE),
     TransientColor(usage(DefaultColorDescriptor, {"RENDER_ATTACHMENT"}), FALSE),
     TransientColor(cube_map(DefaultColorDescriptor), FALSE),
     TransientColor(dimension_3d(DefaultColorDescriptor, 1), FALSE),
     TransientDepth(DefaultDepthDescriptor, FALSE),
     TransientBuffer(DefaultBufferDescriptor),
     TransientBuffer([DefaultBufferDescriptor EXCEPT !.size = 128]),
     TransientBuffer([DefaultBufferDescriptor EXCEPT !.usage = {"UNIFORM", "COPY_DST"}])}

RegisterTransientKind ==
    /\ nodes = <<>>
    /\ next_id < MaxKinds
    /\ \E resource_type \in KindTypes :
          register_transient_resource(ResourceNames[next_id + 1], resource_type)

AddPassInPlace ==
    /\ Len(nodes) < MaxPasses
    /\ \E id \in DOMAIN descriptors :
          add_pass(PassNode(PassNames[Len(nodes) + 1], <<>>, <<>>, <<"target">>),
                   [slot \in {"target"} |-> id])

NextKinds ==
    \/ RegisterTransientKind
    \/ AddPassInPlace
    \/ Compile

SpecKinds == Init /\ [][NextKinds]_vars

(***************************************************************************)
(* A caller that builds its graph and resizes its transient textures       *)
(* before its first successful frame, and from then on only registers      *)
(* resources and runs frames: every frame after the first one follows a    *)
(* successful frame with no add_pass, compile or resize in between.        *)
(***************************************************************************)
ExecuteNext ==
    /\ device <= MaxObjects
    /\ execute({}, {}, EmptyMap, EmptyMap)

NextFrames ==
    \/ RegisterExternal
    \/ RegisterTransient
    \/ ~history.frame.ok /\ AddPass
    \/ ~history.frame.ok /\ Compile
    \/ ~history.frame.ok /\ Resize
    \/ ExecuteNext

SpecFrames == Init /\ [][NextFrames]_vars

(***************************************************************************)
(* A caller with transient resources only that adds passes, compiles and   *)
(* runs frames in any order, and resizes a transient texture that a frame  *)
(* has allocated.                                                          *)
(***************************************************************************)
ResizeAllocated ==
    \E id \in {x \in DOMAIN handles : ~descriptors[x].is_external}, size \in Sizes :
        resize_transient_resource(id, size[1], size[2])

RegisterTransientOnly ==
    /\ nodes = <<>>
    /\ next_id < MaxKinds
    /\ \E rt \in TransientTypes : register_transient_resource(ResourceNames[next_id + 1], rt)

NextLife ==
    \/ RegisterTransientOnly
    \/ AddPass
    \/ Compile
    \/ ResizeAllocated
    \/ ExecuteNext

SpecLife == Init /\ [][NextLife]_vars

(***************************************************************************)
(* A caller whose passes declare two slots: two writes, two reads, or a    *)
(* read and a write, which it may map to one resource.                     *)
(***************************************************************************)
WidePassShapes(name) ==
    {PassNode(name, <<>>, <<"first", "second">>, <<>>),
     PassNode(name, <<"first", "second">>, <<>>, <<>>),
     PassNode(name, <<"input">>, <<"output">>, <<>>),
     PassNode(name, <<>>, <<>>, <<"target">>)}

AddPassWide ==
    /\ Len(nodes) < MaxPasses
    /\ \E pass \in WidePassShapes(PassNames[Len(nodes) + 1]) :
          \E mappings \in [Range(DeclaredSlots(pass)) -> DOMAIN descriptors] :
             add_pass(pass, mappings)

NextWide ==
    \/ RegisterTransientOnly
    \/ AddPassWide
    \/ Compile

SpecWide == Init /\ [][NextWide]_vars

(***************************************************************************)
(* A caller of the RenderGraph of render_graph.rs that removes any of its  *)
(* passes.                                                                 *)
(***************************************************************************)
RgRemoveAny ==
    \E pass_name \in DOMAIN render_graph.pass_nodes : rg_remove_pass(pass_name)

\* It adds its passes before it removes any, so that the names of the
\* remaining passes tell the order of their registration.
NoneRemoved ==
    render_graph.passes = {PassNames[k] : k \in 1..Len(render_graph.nodes)}

NextRemove ==
    \/ RgRegisterExternal
    \/ RgRegisterTransient
    \/ NoneRemoved /\ RgAddPass
    \/ RgRemoveAny
    \/ RgCompile

SpecRemove == Init /\ [][NextRemove]_vars

(***************************************************************************)
(* Properties.                                                             *)
(***************************************************************************)

\* C1: after a successful compile (explicit, or inside execute) the
\* execution order holds every registered pass exactly once, and for every
\* resource R that a pass P reads or read-writes, the last pass registered
\* before P that writes or read-writes R comes before P in the order.
C1_ExecutionOrderIsTopological ==
    ~needs_recompile =>
        LET Written(n) == Range(nodes[n].writes) \cup Range(nodes[n].reads_writes)
            Read(n) == Range(nodes[n].reads) \cup Range(nodes[n].reads_writes)
            LastWriterBefore(w, q, r) ==
                w < q /\ r \in Written(w) /\ \A m \in (w + 1)..(q - 1) : r \notin Written(m)
        IN /\ Len(execution_order) = Len(nodes)
           /\ \A n \in DOMAIN nodes :
                 Cardinality({i \in DOMAIN execution_order : execution_order[i] = n}) = 1
           /\ \A q \in DOMAIN nodes, w \in DOMAIN nodes :
                 \A r \in Read(q) :
                    LastWriterBefore(w, q, r) =>
                       IndexIn(execution_order, w) < IndexIn(execution_order, q)

\* A compiled graph in which a pass reads what an earlier pass wrote.
C1_Witness ==
    /\ ~needs_recompile
    /\ \E q \in DOMAIN nodes, w \in DOMAIN nodes :
          /\ w < q
          /\ (Range(nodes[q].reads) \cup Range(nodes[q].reads_writes))
                \cap (Range(nodes[w].writes) \cup Range(nodes[w].reads_writes)) # {}

C3_StoreOpPerWrite ==
    ~needs_recompile =>
        \A i \in DOMAIN execution_order :
           \A r \in Range(nodes[execution_order[i]].writes)
                       \cup Range(nodes[execution_order[i]].reads_writes) :
              ~descriptors[r].is_external =>
                 /\ r \in DOMAIN store_ops
                 /\ store_ops[r] = Store <=>
                       \E j \in (i + 1)..Len(execution_order) :
                          r \in Range(nodes[execution_order[j]].reads)
                                   \cup Range(nodes[execution_order[j]].reads_writes)

\* C4: a pass that ran in the previous frame and uses an external resource
\* bound again since then gets exactly one invalidate_bind_groups call in
\* the current frame, before its prepare and its execute.
C4_RebindInvalidatesOnce ==
    [][(ExecuteBound /\ result'.status = "Ok") =>
          \A n \in DOMAIN nodes :
             (Call("execute", n) \in Range(calls)
                 /\ NodeResources(nodes[n]) \cap history.rebound # {}) =>
                /\ Cardinality({i \in DOMAIN calls' :
                                   calls'[i] = Call("invalidate_bind_groups", n)}) = 1
                /\ \A i \in DOMAIN calls', j \in DOMAIN calls' :
                      (calls'[i] = Call("invalidate_bind_groups", n)
                          /\ calls'[j].pass = n
                          /\ calls'[j].method \in {"prepare", "execute"}) => i < j]_vars

\* C5: the version of a resource never decreases, and every
\* set_external_texture or set_external_buffer call on an identifier makes
\* its version strictly greater.
C5_RebindIncreasesVersion ==
    [][/\ \A id \in DOMAIN descriptors :
             get_version_of(versions', id) >= get_version_of(versions, id)
       /\ \A id \in DOMAIN descriptors :
             ((\E view \in Views : set_external_texture(id, view))
                \/ (\E buffer \in Buffers : set_external_buffer(id, buffer))) =>
                get_version_of(versions', id) > get_version_of(versions, id)]_vars

\* C6: with a pass A that writes X and reads Y and a pass B that writes Y
\* and reads X, compile returns CyclicDependency, and execute fails with the
\* same error and runs no pass.
C6_MutualPassesRejected ==
    [][((\E a \in DOMAIN nodes, b \in DOMAIN nodes :
            \E x \in Range(nodes[a].writes), y \in Range(nodes[a].reads) :
               x # y /\ y \in Range(nodes[b].writes) /\ x \in Range(nodes[b].reads))
          /\ (compile \/ Execute)) =>
            /\ result'.status = "CyclicDependency"
            /\ needs_recompile'
            /\ Execute => calls' = <<>>]_vars

\* C7: a transient resource that only culled passes use is in no aliasing
\* plan, and no pool slot and no physical texture or buffer is made for it.
C7_CulledOnlyResourcesUnallocated ==
    (~needs_recompile /\ aliasing_info.some) =>
        \A r \in DOMAIN descriptors :
           LET users == {n \in DOMAIN nodes : r \in NodeResources(nodes[n])}
           IN (~descriptors[r].is_external /\ users # {} /\ users \subseteq culled_passes) =>
                 r \notin DOMAIN aliasing_info.aliases /\ r \notin DOMAIN handles

C9_SubGraphBuffersPlaced ==
    history.frame.ok =>
        LET order == history.frame.execution_order
            Holds(b, q) == /\ command_buffers[b].source = "encoder"
                           /\ q \in Range(command_buffers[b].passes)
        IN \A b \in DOMAIN command_buffers :
              command_buffers[b].source = "sub_graph" =>
                 /\ \E h \in 1..(b - 1) : Holds(h, command_buffers[b].requested_by)
                 /\ \A e \in DOMAIN command_buffers, q \in Range(order) :
                       (Holds(e, q)
                          /\ IndexIn(order, q)
                                > IndexIn(order, command_buffers[b].requested_by)) =>
                          b < e
                 /\ \A c \in DOMAIN command_buffers :
                       (command_buffers[c].source = "sub_graph"
                          /\ command_buffers[c].requested_by = command_buffers[b].requested_by
                          /\ command_buffers[b].request < command_buffers[c].request) =>
                          b < c

\* A frame in which a pass asked for two runs and another pass followed it.
C9_Witness ==
    /\ history.frame.ok
    /\ \E b \in DOMAIN command_buffers, e \in DOMAIN command_buffers :
          /\ command_buffers[b].source = "sub_graph"
          /\ command_buffers[b].request = 2
          /\ b < e
          /\ command_buffers[e].source = "encoder"
          /\ command_buffers[e].passes # <<>>

\* C10: an execute call after add_pass recomputes the dependency edges, the
\* execution order, the store-ops, the culled passes and the aliasing plan
\* before any pass runs, also when a resize is pending; with only a resize
\* pending, just the lifetimes and the aliasing plan are recomputed.
C10_ExecuteRecompiles ==
    [][(Execute /\ result'.status = "Ok") =>
          /\ (needs_recompile /\ nodes # <<>>) =>
                /\ ~needs_recompile'
                /\ Range(execution_order') = DOMAIN nodes
                /\ store_ops' = compute_store_ops(nodes, descriptors, execution_order')
                /\ culled_passes' = compute_dead_passes(nodes, descriptors, execution_order')
                /\ aliasing_info'.some
          /\ (~needs_recompile /\ needs_resource_reallocation) =>
                /\ edges' = edges
                /\ execution_order' = execution_order
                /\ store_ops' = store_ops
                /\ culled_passes' = culled_passes
                /\ aliasing_info'.some]_vars

\* C11: two transient textures of the same format, size, sample count and
\* mip count, one with usage RENDER_ATTACHMENT | TEXTURE_BINDING and one with
\* RENDER_ATTACHMENT | STORAGE_BINDING, whose lifetimes do not overlap, are
\* in the same pool slot, and the usage of that slot is the union of the two.
C11_DisjointMasksShareSlot ==
    (~needs_recompile /\ aliasing_info.some) =>
        LET lifetimes == compute_resource_lifetimes(nodes, descriptors, execution_order)
            SameShape(d1, d2) ==
                /\ d1.format = d2.format
                /\ d1.width = d2.width /\ d1.height = d2.height
                /\ d1.sample_count = d2.sample_count
                /\ d1.mip_level_count = d2.mip_level_count
        IN \A l1 \in lifetimes, l2 \in lifetimes :
              LET t1 == descriptors[l1.resource_id].resource_type
                  t2 == descriptors[l2.resource_id].resource_type
              IN (/\ t1.variant = "TransientColor" /\ t2.variant = "TransientColor"
                  /\ SameShape(t1.tex, t2.tex)
                  /\ t1.tex.usage = {"RENDER_ATTACHMENT", "TEXTURE_BINDING"}
                  /\ t2.tex.usage = {"RENDER_ATTACHMENT", "STORAGE_BINDING"}
                  /\ (l1.last_use < l2.first_use \/ l2.last_use < l1.first_use)) =>
                    /\ aliasing_info.aliases[l1.resource_id] = aliasing_info.aliases[l2.resource_id]
                    /\ aliasing_info.pools[aliasing_info.aliases[l1.resource_id]].descriptor_info.tex.usage
                          = t1.tex.usage \cup t2.tex.usage

C13_ExternalAttachmentStoreOp ==
    ~needs_recompile =>
        \A id \in DOMAIN handles :
           LET rt == descriptors[id].resource_type
               attachment == IF rt.variant = "ExternalColor"
                             THEN get_color_attachment(id) ELSE get_depth_attachment(id)
               Written(i) == Range(nodes[execution_order[i]].writes)
                                \cup Range(nodes[execution_order[i]].reads_writes)
               Read(i) == Range(nodes[execution_order[i]].reads)
                             \cup Range(nodes[execution_order[i]].reads_writes)
               writers == {i \in DOMAIN execution_order : id \in Written(i)}
               read_later == \E i \in writers :
                                (\A j \in writers : j <= i)
                                   /\ \E k \in (i + 1)..Len(execution_order) : id \in Read(k)
           IN (rt.variant \in {"ExternalColor", "ExternalDepth"} /\ writers # {}) =>
                 /\ attachment.status = "Ok"
                 /\ attachment.store_op = store_ops[id]
                 /\ attachment.store_op = IF rt.force_store \/ read_later THEN Store ELSE Discard

\* C14: a successful resize_transient_resource(id, w, h) changes only the
\* width and height in the descriptor of id, allocates no physical
\* resource, removes the cached aliasing plan and every transient handle,
\* marks reallocation pending, and leaves unchanged every external handle,
\* every other descriptor, every version counter, the execution order, the
\* store-op table and the culled set.
C14_ResizeEffects ==
    [][\A id \in 0..next_id, size \in Sizes :
          (resize_transient_resource(id, size[1], size[2]) /\ result'.status = "Ok") =>
             /\ id \in DOMAIN descriptors
             /\ descriptors' = [descriptors EXCEPT ![id].resource_type.tex.width = size[1],
                                                   ![id].resource_type.tex.height = size[2]]
             /\ device' = device
             /\ ~aliasing_info'.some
             /\ \A r \in DOMAIN handles' : descriptors[r].is_external
             /\ needs_resource_reallocation'
             /\ \A r \in DOMAIN handles :
                   descriptors[r].is_external => (r \in DOMAIN handles' /\ handles'[r] = handles[r])
             /\ versions' = versions
             /\ execution_order' = execution_order
             /\ store_ops' = store_ops
             /\ culled_passes' = culled_passes]_vars

\* A successful resize has just dropped the plan and the transient handles
\* of a graph whose external target stays bound and whose schedule and
\* store-ops are in place.
C14_Witness ==
    /\ needs_resource_reallocation
    /\ ~aliasing_info.some
    /\ history.frame.ok
    /\ execution_order # <<>>
    /\ DOMAIN store_ops # {}
    /\ \E r \in DOMAIN handles : descriptors[r].is_external
    /\ \E r \in DOMAIN descriptors :
          ~descriptors[r].is_external /\ descriptors[r].resource_type.tex.width = 2

\* C15: resize_transient_resource fails with CannotResizeExternal for an
\* external resource, with CannotResizeBuffer for a transient buffer and
\* with ResourceNotFound for an identifier that is not registered, and then
\* the descriptors, the handles, the cached aliasing plan and the
\* pending-reallocation flag are as before the call.
C15_ResizeRejected ==
    [][\A id \in 0..next_id, size \in Sizes :
          resize_transient_resource(id, size[1], size[2]) =>
             LET Rejected(error) ==
                    /\ result'.status = error
                    /\ descriptors' = descriptors
                    /\ handles' = handles
                    /\ aliasing_info' = aliasing_info
                    /\ needs_resource_reallocation' = needs_resource_reallocation
             IN /\ id \notin DOMAIN descriptors => Rejected("ResourceNotFound")
                /\ (id \in DOMAIN descriptors /\ descriptors[id].is_external) =>
                      Rejected("CannotResizeExternal")
                /\ (id \in DOMAIN descriptors /\ ~descriptors[id].is_external
                      /\ descriptors[id].resource_type.variant = "TransientBuffer") =>
                      Rejected("CannotResizeBuffer")]_vars

\* A resize of a transient buffer has just been refused in a graph that has
\* handles, a plan and no reallocation pending.
C15_Witness ==
    /\ result.status = "CannotResizeBuffer"
    /\ aliasing_info.some
    /\ handles # EmptyMap
    /\ ~needs_resource_reallocation

\* C16: add_pass fails with SlotNotMapped, naming the pass and the slot,
\* whenever a slot name the pass declares in reads, writes or reads_writes
\* is absent from the mappings, and then it adds no vertex, changes no
\* slot-mapping entry and does not set the recompile flag; when every
\* declared slot is mapped it succeeds, adds exactly one vertex and marks a
\* recompile pending.
C16_AddPassSlots ==
    [][\A pass \in PassShapes(PassNames[Len(nodes) + 1]) :
          \A mappings \in MappingsFor(pass) \cup PartialMappingsFor(pass) :
             add_pass(pass, mappings) =>
                LET absent == {slot \in Range(DeclaredSlots(pass)) : slot \notin DOMAIN mappings}
                IN IF absent # {}
                   THEN /\ result'.status = "SlotNotMapped"
                        /\ result'.detail.pass = pass.name
                        /\ result'.detail.slot \in absent
                        /\ nodes' = nodes
                        /\ pass_nodes' = pass_nodes
                        /\ pass_resource_mappings' = pass_resource_mappings
                        /\ needs_recompile' = needs_recompile
                   ELSE /\ result'.status = "Ok"
                        /\ Len(nodes') = Len(nodes) + 1
                        /\ SubSeq(nodes', 1, Len(nodes)) = nodes
                        /\ needs_recompile']_vars

\* An add_pass call has just been refused in a compiled graph with a pass.
C16_Witness ==
    /\ result.status = "SlotNotMapped"
    /\ nodes # <<>>
    /\ ~needs_recompile

C19_MissingWriterRejected ==
    [][LET Writers(r) == {m \in DOMAIN nodes :
                             r \in Range(nodes[m].writes) \cup Range(nodes[m].reads_writes)}
           unwritten == {r \in UNION {Range(nodes[n].reads) : n \in DOMAIN nodes} :
                            ~descriptors[r].is_external /\ Writers(r) = {}}
       IN (unwritten # {} /\ needs_recompile) =>
             /\ compile => result'.status # "Ok"
             /\ nodes' = nodes => needs_recompile']_vars


\* C20: a call of compile fails when some resource has two writers (passes
\* that write or read-write it) with no dependency path between them in
\* either direction, however many writers the resource has; and it does not
\* fail for that reason when every two writers of every resource are joined
\* by a path.  The edges are the ones the call has built.
C20_UnorderedWritersRejected ==
    [][LET Writers(ns, r) == {n \in DOMAIN ns :
                                 r \in Range(ns[n].writes) \cup Range(ns[n].reads_writes)}
           Unordered(ns, es) ==
               \E r \in UNION {NodeResources(ns[n]) : n \in DOMAIN ns} :
                  \E a, b \in Writers(ns, r) :
                     /\ a # b
                     /\ ~has_path_connecting(es, a, b)
                     /\ ~has_path_connecting(es, b, a)
           rejected == "written by multiple passes without dependency"
       IN /\ compile =>
               IF Unordered(nodes, edges') THEN result'.status # "Ok"
               ELSE result'.status # rejected
          /\ rg_compile =>
               IF Unordered(render_graph.nodes, render_graph'.edges)
               THEN result'.status # "Ok"
               ELSE result'.status # rejected]_vars


\* C21: when a pass that is run in a frame returns an error, or asks for a
\* sub-graph that is missing, or hands a sub-graph an input of the wrong
\* kind, or its sub-graph fails, execute returns that error, the pass is the
\* last one whose execute is called in that frame (no pass later in the
\* execution order is executed), and no command buffer is returned.
C21_FailureAbortsFrame ==
    [][\A n \in DOMAIN nodes, script \in FailureScripts :
          (/\ script.error # "Ok"
           /\ "bloom" \in DOMAIN sub_graphs
           /\ n \notin culled_passes'
           /\ execute_script(n, script)) =>
             /\ result'.status = script.error
             /\ command_buffers' = <<>>
             /\ calls' # <<>>
             /\ calls'[Len(calls')] = Call("execute", n)
             /\ \A k \in DOMAIN calls' :
                   calls'[k].method = "execute" =>
                      IndexIn(execution_order', calls'[k].pass) <= IndexIn(execution_order', n)]_vars

\* A frame has failed at the first of two passes that are both run: the
\* second one was prepared and never executed.
C21_Witness ==
    /\ result.status \in {"PassError", "SubGraphNotFound", "SubGraphInputTypeMismatch",
                          "SubGraphError"}
    /\ Len(execution_order) = 2
    /\ culled_passes = {}
    /\ Call("prepare", execution_order[2]) \in Range(calls)
    /\ Call("execute", execution_order[1]) \in Range(calls)
    /\ Call("execute", execution_order[2]) \notin Range(calls)
    /\ command_buffers = <<>>


\* C22: an accessor called on a bound resource of the wrong kind returns
\* TypeMismatch (and so does not panic): get_color_attachment on a depth or
\* buffer resource, get_depth_attachment on a colour or buffer resource,
\* get_texture_view and get_texture_size on a buffer resource, get_buffer on
\* a texture resource.
C22_WrongKindIsTypeMismatch ==
    \A id \in DOMAIN handles \cap DOMAIN descriptors :
       LET kind == descriptors[id].resource_type.variant
           colour == kind \in {"ExternalColor", "TransientColor"}
           depth == kind \in {"ExternalDepth", "TransientDepth"}
           buffer == kind \in {"ExternalBuffer", "TransientBuffer"}
       IN /\ (depth \/ buffer) => get_color_attachment(id).status = "TypeMismatch"
          /\ (colour \/ buffer) => get_depth_attachment(id).status = "TypeMismatch"
          /\ buffer => get_texture_view(id).status = "TypeMismatch"
          /\ buffer => get_texture_size(id).status = "TypeMismatch"
          /\ (colour \/ depth) => get_buffer(id).status = "TypeMismatch"


\* C23: what compilation leaves does not depend on the config.  For every
\* execute step and every other config of the caller, execute with that
\* config has a frame with the same dependency edges, execution order, culled
\* set, store-op table and aliasing plan (the lifetimes are a function of
\* the nodes and the order), and with the same registry, device and
\* invalidate_bind_groups calls: the frames differ only in the passes that
\* receive prepare and execute.
C23_CompiledStateIgnoresConfig ==
    [][\A d1 \in Configs :
          (history'.frame.disabled = d1 /\ execute(d1, {}, EmptyMap, EmptyMap)) =>
             \A d2 \in Configs \ {d1} :
                \E frame \in execute_frames(d2, {}, EmptyMap, EmptyMap) :
                   /\ frame.compiled.edges = edges'
                   /\ frame.compiled.execution_order = execution_order'
                   /\ frame.compiled.culled_passes = culled_passes'
                   /\ frame.compiled.store_ops = store_ops'
                   /\ frame.compiled.aliasing_info = aliasing_info'
                   /\ frame.compiled.needs_recompile = needs_recompile'
                   /\ frame.compiled.needs_resource_reallocation = needs_resource_reallocation'
                   /\ frame.handles = handles'
                   /\ frame.versions = versions'
                   /\ frame.device = device'
                   /\ frame.resource_versions = resource_versions'
                   /\ frame.status = result'.status
                   /\ Len(frame.command_buffers) = Len(command_buffers')
                   /\ SelectSeq(frame.calls, LAMBDA c : c.method \notin {"prepare", "execute"})
                         = SelectSeq(calls', LAMBDA c : c.method \notin {"prepare", "execute"})]_vars

\* A frame that has compiled a graph of two passes, one of them culled,
\* with the other one disabled by the config.
C23_Witness ==
    /\ history.frame.ok
    /\ history.frame.disabled # {}
    /\ Len(execution_order) = 2
    /\ Cardinality(culled_passes) = 1
    /\ \E n \in DOMAIN nodes : n \notin culled_passes /\ nodes[n].name \in history.frame.disabled
    /\ ~needs_recompile
    /\ \A k \in DOMAIN calls : calls[k].method \notin {"prepare", "execute"}


\* C24, as the code has it: while no two vertices of the graph have the
\* same pass name, every vertex has an entry in the slot-mapping table that
\* execute looks up by the name of the pass, every slot name the pass
\* returns from reads, writes and reads_writes is a key of that entry, and
\* it maps there to the ResourceId at the same position of the vertex's
\* read, write or read-write list.
C24_SlotsMappedForDistinctNames ==
    (\A a, b \in DOMAIN nodes : a # b => nodes[a].name # nodes[b].name) =>
       \A n \in DOMAIN nodes :
          /\ nodes[n].name \in DOMAIN pass_resource_mappings
          /\ LET pass == pass_of(nodes[n])
                 slot_mappings == pass_resource_mappings[nodes[n].name]
             IN \A list \in {"reads", "writes", "reads_writes"} :
                   /\ Len(pass[list]) = Len(nodes[n][list])
                   /\ \A k \in DOMAIN pass[list] :
                         /\ pass[list][k] \in DOMAIN slot_mappings
                         /\ slot_mappings[pass[list][k]] = nodes[n][list][k]

\* Two passes with different names have been added, the second one with
\* two slots mapped to two resources.
C24_Witness ==
    /\ Len(nodes) = 2
    /\ nodes[1].name # nodes[2].name
    /\ nodes[2].reads # <<>>
    /\ nodes[2].writes # <<>>
    /\ result.status = "Ok"
    /\ DOMAIN pass_resource_mappings[nodes[2].name] = {"input", "output"}

\* C24 as stated, for any sequence of successful add_pass calls: every
\* vertex has an entry in the slot-mapping table under the name of its
\* pass, and every slot name of the pass maps there to the ResourceId
\* resolved into the vertex.
C24_SlotsMapped ==
    \A n \in DOMAIN nodes :
       /\ nodes[n].name \in DOMAIN pass_resource_mappings
       /\ LET pass == pass_of(nodes[n])
              slot_mappings == pass_resource_mappings[nodes[n].name]
          IN \A list \in {"reads", "writes", "reads_writes"} :
                \A k \in DOMAIN pass[list] :
                   /\ pass[list][k] \in DOMAIN slot_mappings
                   /\ slot_mappings[pass[list][k]] = nodes[n][list][k]


\* C25: after any sequence of registrations and successful add_pass calls,
\* every ResourceId in the slot mapping of a pass, and every ResourceId in
\* the read, write and read-write lists of a vertex, has a descriptor in
\* the registry.
C25_MappedIdsRegistered ==
    /\ \A name \in DOMAIN pass_resource_mappings :
          Range(pass_resource_mappings[name]) \subseteq DOMAIN descriptors
    /\ \A n \in DOMAIN nodes : NodeResources(nodes[n]) \subseteq DOMAIN descriptors


\* C26: execute of a graph with no pass, whatever is registered, succeeds,
\* returns at most one command buffer and no pass is recorded in it, and
\* leaves the aliasing plan without a pool slot, the device without a new
\* texture or buffer, and the handles and versions as they were.
C26_EmptyGraphFrame ==
    [][(nodes = <<>> /\ execute({}, {}, EmptyMap, EmptyMap)) =>
          /\ result'.status = "Ok"
          /\ Len(command_buffers') <= 1
          /\ \A k \in DOMAIN command_buffers' : command_buffers'[k].passes = <<>>
          /\ aliasing_info'.pools = <<>>
          /\ aliasing_info'.aliases = EmptyMap
          /\ device' = device
          /\ handles' = handles
          /\ versions' = versions]_vars

\* A frame of a graph with no pass has run with an external target bound
\* and two transient resources registered, one of them resized.
C26_Witness ==
    /\ nodes = <<>>
    /\ history.frame.ok
    /\ history.frame.passes = 0
    /\ command_buffers # <<>>
    /\ DOMAIN handles = {0}
    /\ Cardinality({id \in DOMAIN descriptors : ~descriptors[id].is_external}) = 2
    /\ \E id \in DOMAIN descriptors : descriptors[id].resource_type.tex.width = 2


\* C27: at the end of every successful execute, two distinct transient
\* resources whose handles refer to the same physical texture or buffer
\* have disjoint lifetime intervals in the current execution order.
C27_SharedPhysicalDisjoint ==
    [][(execute({}, {}, EmptyMap, EmptyMap) /\ result'.status = "Ok") =>
          LET lifetimes == compute_resource_lifetimes(nodes', descriptors', execution_order')
              LifetimeOf(r) == CHOOSE lt \in lifetimes : lt.resource_id = r
              live == {lt.resource_id : lt \in lifetimes} \cap DOMAIN handles'
          IN \A r1 \in live, r2 \in live :
                (/\ r1 # r2
                 /\ handles'[r1].variant = handles'[r2].variant
                 /\ handles'[r1].object = handles'[r2].object) =>
                    \/ LifetimeOf(r1).last_use < LifetimeOf(r2).first_use
                    \/ LifetimeOf(r2).last_use < LifetimeOf(r1).first_use]_vars

\* C28: after every successful execute, the handle of every transient
\* resource that a pass uses is a view into the physical resource that the
\* pool slot of the resource in the current aliasing plan holds, and the
\* handle of a texture carries the store-op of the resource in the current
\* store-op table.
C28_HandlesFollowPlan ==
    [][(execute({}, {}, EmptyMap, EmptyMap) /\ result'.status = "Ok") =>
          \A n \in DOMAIN nodes' :
             \A id \in {x \in NodeResources(nodes'[n]) : ~descriptors'[x].is_external} :
                /\ id \in DOMAIN handles'
                /\ id \in DOMAIN aliasing_info'.aliases
                /\ LET pool_slot == aliasing_info'.pools[aliasing_info'.aliases[id]]
                   IN /\ pool_slot.resource.some
                      /\ handles'[id].object = pool_slot.resource.object
                      /\ handles'[id].variant = "TransientTexture" =>
                            handles'[id].store_op = StoreOpOrDefault(store_ops', id)]_vars


\* C29: for every transient resource R that at least one pass of the
\* execution order uses, the lifetime of R has first_use equal to the
\* smallest and last_use equal to the largest execution index of a pass that
\* reads, writes or read-writes R, so first_use <= last_use.
C29_LifetimeSpansEveryUse ==
    ~needs_recompile =>
        LET lifetimes == compute_resource_lifetimes(nodes, descriptors, execution_order)
            UsesOf(r) == {position - 1 : position \in
                             {q \in DOMAIN execution_order :
                                 r \in NodeResources(nodes[execution_order[q]])}}
        IN \A r \in {x \in DOMAIN descriptors : ~descriptors[x].is_external} :
              UsesOf(r) # {} =>
                 \E lt \in lifetimes :
                    /\ lt.resource_id = r
                    /\ lt.first_use \in UsesOf(r)
                    /\ \A i \in UsesOf(r) : lt.first_use <= i
                    /\ lt.last_use \in UsesOf(r)
                    /\ \A i \in UsesOf(r) : i <= lt.last_use
                    /\ lt.first_use <= lt.last_use


\* C30: in a compiled graph a pass is culled if and only if it has at least
\* one write or read-write and none of the resources it writes or
\* read-writes is external or is read or read-written by a non-culled pass
\* later in the execution order; a pass with no write and no read-write is
\* never culled, and neither is a pass that writes or read-writes an
\* external resource.
C30_CulledIffUnobserved ==
    ~needs_recompile =>
        \A p \in DOMAIN execution_order :
           LET node == nodes[execution_order[p]]
               written == Range(node.writes) \cup Range(node.reads_writes)
               IsExternal(r) == r \in DOMAIN descriptors /\ descriptors[r].is_external
               ObservedLater(r) ==
                   \E q \in DOMAIN execution_order :
                      /\ q > p
                      /\ execution_order[q] \notin culled_passes
                      /\ r \in Range(nodes[execution_order[q]].reads)
                                  \cup Range(nodes[execution_order[q]].reads_writes)
           IN /\ execution_order[p] \in culled_passes <=>
                    (written # {} /\ \A r \in written : ~IsExternal(r) /\ ~ObservedLater(r))
              /\ written = {} => execution_order[p] \notin culled_passes
              /\ (\E r \in written : IsExternal(r)) => execution_order[p] \notin culled_passes

\* A compiled graph that culls one pass and keeps another pass that writes.
C30_Witness ==
    /\ ~needs_recompile
    /\ result = Outcome("compile", "Ok")
    /\ \E p \in DOMAIN execution_order, q \in DOMAIN execution_order :
          /\ p # q
          /\ execution_order[p] \in culled_passes
          /\ execution_order[q] \notin culled_passes
          /\ nodes[execution_order[q]].writes # <<>> \/ nodes[execution_order[q]].reads_writes # <<>>


\* C31: in each execute that reaches the step, a pass of the execution
\* order, culled or disabled or neither, gets invalidate_bind_groups exactly
\* once when it reads, writes or read-writes a resource whose current
\* version differs from the version last observed, and never otherwise;
\* afterwards the last observed version of every registered resource is its
\* current version.
C31_InvalidatedOncePerDirtyPass ==
    [][(execute(history'.frame.disabled, {}, EmptyMap, EmptyMap)
           /\ result'.status # "CyclicDependency") =>
          /\ \A n \in Range(execution_order') :
                LET received == Cardinality({i \in DOMAIN calls' :
                                    calls'[i] = Call("invalidate_bind_groups", n)})
                    dirty == \E r \in NodeResources(nodes[n]) \cap DOMAIN descriptors :
                                get_version_of(versions', r) # get_version_of(resource_versions, r)
                IN received = IF dirty THEN 1 ELSE 0
          /\ \A id \in DOMAIN descriptors :
                get_version_of(resource_versions', id) = get_version_of(versions', id)]_vars

\* A frame that invalidates a pass it then skips, culled or disabled, and
\* leaves another pass of the execution order alone.
C31_Witness ==
    /\ result = Outcome("execute", "Ok")
    /\ \E n \in Range(execution_order), m \in Range(execution_order) :
          /\ n \in culled_passes \/ nodes[n].name \in history.frame.disabled
          /\ \E i \in DOMAIN calls : calls[i] = Call("invalidate_bind_groups", n)
          /\ \A i \in DOMAIN calls : calls[i] # Call("invalidate_bind_groups", m)


\* C32: every dependency edge runs from a pass to a pass registered strictly
\* after it, so the registration order respects every edge, and neither
\* compile nor execute returns CyclicDependency.
C32_EdgesFollowRegistration ==
    /\ \A k \in DOMAIN edges : edges[k].from < edges[k].to
    /\ toposort(nodes, edges).ok
    /\ result.status # "CyclicDependency"

\* A compiled graph of two passes, each reading what the other writes.
C32_Witness ==
    /\ ~needs_recompile
    /\ result.status = "Ok"
    /\ edges # <<>>
    /\ \E p \in DOMAIN nodes, q \in DOMAIN nodes :
          /\ p # q
          /\ Range(nodes[p].reads) \cap Range(nodes[q].writes) # {}
          /\ Range(nodes[q].reads) \cap Range(nodes[p].writes) # {}


\* C33: in a compiled graph no pass that is kept reads or read-writes a
\* transient resource whose producer, the last pass before it in the
\* execution order that writes or read-writes the resource, is culled.
C33_ProducerOfKeptReaderKept ==
    ~needs_recompile =>
        \A p \in DOMAIN execution_order :
           execution_order[p] \notin culled_passes =>
              \A r \in Range(nodes[execution_order[p]].reads)
                          \cup Range(nodes[execution_order[p]].reads_writes) :
                 LET producers == {w \in 1..(p - 1) :
                                      r \in Range(nodes[execution_order[w]].writes)
                                               \cup Range(nodes[execution_order[w]].reads_writes)}
                 IN (~descriptors[r].is_external /\ producers # {}) =>
                       execution_order[CHOOSE w \in producers : \A v \in producers : v <= w]
                          \notin culled_passes

\* A compiled graph in which a kept pass reads a transient resource that a
\* pass before it in the execution order writes.
C33_Witness ==
    /\ ~needs_recompile
    /\ result = Outcome("compile", "Ok")
    /\ \E p \in DOMAIN execution_order, w \in DOMAIN execution_order :
          /\ w < p
          /\ execution_order[p] \notin culled_passes
          /\ \E r \in Range(nodes[execution_order[p]].reads) \cap Range(nodes[execution_order[w]].writes) :
                ~descriptors[r].is_external


\* C34: the pool slot of every transient resource that has an alias holds a
\* descriptor of the kind of the resource; for a texture the format, width,
\* height, sample count and mip level count are those of the resource and
\* the usage mask contains the usage mask of the resource; for a buffer the
\* usage mask is that of the resource and the size is at least its size.
C34_SlotDescriptorCompatible ==
    aliasing_info.some =>
        \A r \in DOMAIN aliasing_info.aliases :
           LET slot == aliasing_info.pools[aliasing_info.aliases[r]].descriptor_info
               resource_type == descriptors[r].resource_type
           IN IF resource_type.variant = "TransientBuffer"
              THEN /\ slot.variant = "Buffer"
                   /\ slot.buf.usage = resource_type.buf.usage
                   /\ slot.buf.size >= resource_type.buf.size
              ELSE /\ slot.variant = "Texture"
                   /\ slot.tex.format = resource_type.tex.format
                   /\ slot.tex.width = resource_type.tex.width
                   /\ slot.tex.height = resource_type.tex.height
                   /\ slot.tex.sample_count = resource_type.tex.sample_count
                   /\ slot.tex.mip_level_count = resource_type.tex.mip_level_count
                   /\ resource_type.tex.usage \subseteq slot.tex.usage

\* A plan in which a buffer shares the pool slot of a larger buffer.
C34_Witness ==
    /\ aliasing_info.some
    /\ \E r1 \in DOMAIN aliasing_info.aliases, r2 \in DOMAIN aliasing_info.aliases :
          /\ r1 # r2
          /\ aliasing_info.aliases[r1] = aliasing_info.aliases[r2]
          /\ descriptors[r1].resource_type.buf.size # descriptors[r2].resource_type.buf.size


\* C38: the pool slot of every transient texture that has an alias holds a
\* descriptor with the texture dimension and the depth_or_array_layers of
\* the texture itself.
C38_SlotKeepsDimensionAndLayers ==
    aliasing_info.some =>
        \A r \in DOMAIN aliasing_info.aliases :
           LET slot == aliasing_info.pools[aliasing_info.aliases[r]].descriptor_info
               resource_type == descriptors[r].resource_type
           IN resource_type.variant \in {"TransientColor", "TransientDepth"} =>
                 /\ slot.tex.dimension = resource_type.tex.dimension
                 /\ slot.tex.depth_or_array_layers = resource_type.tex.depth_or_array_layers


\* C35: a successful execute that follows a successful execute with no
\* add_pass, compile or resize_transient_resource in between leaves the
\* pool slot of every resource and the physical resource of every pool slot
\* as they were, and creates no texture and no buffer.
C35_SecondFrameAllocatesNothing ==
    [][(history.frame.ok /\ ExecuteNext /\ result'.status = "Ok") =>
          /\ aliasing_info'.aliases = aliasing_info.aliases
          /\ Len(aliasing_info'.pools) = Len(aliasing_info.pools)
          /\ \A p \in DOMAIN aliasing_info.pools :
                aliasing_info'.pools[p].resource = aliasing_info.pools[p].resource
          /\ device' = device]_vars


\* C36: after every successful execute every transient resource that a pass
\* of the current execution order reads, writes or read-writes has a handle.
C36_UsedTransientsHaveHandles ==
    [][(ExecuteNext /\ result'.status = "Ok") =>
          \A n \in Range(execution_order') :
             \A r \in NodeResources(nodes'[n]) :
                ~descriptors'[r].is_external => r \in DOMAIN handles']_vars

\* A frame has run after a resize that followed an earlier frame and an
\* add_pass: the pass added is not in the execution order yet.
C36_Witness ==
    /\ history.frame.ok
    /\ needs_recompile
    /\ history.frame.passes = Len(nodes)
    /\ Len(execution_order) < Len(nodes)
    /\ execution_order # <<>>
    /\ \E r \in DOMAIN handles : descriptors[r].resource_type.tex.width = 2


\* C37: in a compiled graph the dependency edges are exactly the pairs
\* (W, P) in which P reads or read-writes a resource and W is the last pass
\* registered before P that writes or read-writes it; no ordered pair of
\* passes has two edges, and no edge goes from a pass to itself.
C37_EdgesAreLastWriterPairs ==
    (~needs_recompile /\ result.status = "Ok") =>
        LET Writes(n) == Range(nodes[n].writes) \cup Range(nodes[n].reads_writes)
            Reads(n) == Range(nodes[n].reads) \cup Range(nodes[n].reads_writes)
            WritersBefore(p, r) == {w \in 1..(p - 1) : r \in Writes(w)}
            LastWriter(p, r) == CHOOSE w \in WritersBefore(p, r) :
                                   \A v \in WritersBefore(p, r) : v <= w
            expected == {<<LastWriter(pr[1], pr[2]), pr[1]>> :
                            pr \in {x \in (DOMAIN nodes) \X (DOMAIN descriptors) :
                                       x[2] \in Reads(x[1]) /\ WritersBefore(x[1], x[2]) # {}}}
        IN /\ {<<edges[k].from, edges[k].to>> : k \in DOMAIN edges} = expected
           /\ \A k \in DOMAIN edges, l \in DOMAIN edges :
                 (edges[k].from = edges[l].from /\ edges[k].to = edges[l].to) => k = l
           /\ \A k \in DOMAIN edges : edges[k].from # edges[k].to


\* C39: in the engine of render_graph.rs, in a graph compiled after passes
\* were removed, the name-to-vertex table maps the name of every remaining
\* pass to the vertex of that pass, and every remaining pass that reads a
\* resource comes after the last remaining pass registered before it that
\* writes or read-writes the resource.
C39_RemovalKeepsTableAndOrder ==
    (~render_graph.needs_recompile /\ result.status = "Ok") =>
        LET ns == render_graph.nodes
            Registered(n) == CHOOSE k \in DOMAIN PassNames : PassNames[k] = ns[n].name
            Producers(p, r) == {w \in DOMAIN ns :
                                   /\ Registered(w) < Registered(p)
                                   /\ r \in Range(ns[w].writes) \cup Range(ns[w].reads_writes)}
        IN /\ \A name \in DOMAIN render_graph.pass_nodes :
                 /\ render_graph.pass_nodes[name] \in DOMAIN ns
                 /\ ns[render_graph.pass_nodes[name]].name = name
           /\ \A p \in DOMAIN ns :
                 \A r \in Range(ns[p].reads) \cup Range(ns[p].reads_writes) :
                    \A w \in Producers(p, r) :
                       (\A v \in Producers(p, r) : Registered(v) <= Registered(w)) =>
                          IndexIn(render_graph.execution_order, w)
                             < IndexIn(render_graph.execution_order, p)

====
